---- MODULE Spec2Model ----
(***************************************************************************)
(* The import job execution engine of plastron: ImportJob, ImportRun and   *)
(* ImportRow of plastron/jobs/imports/__init__.py, with ItemLog and        *)
(* datetimestamp of plastron/core/util.py.                                 *)
(*                                                                         *)
(* One job directory is modelled.  The caller starts or resumes the job,   *)
(* which gives a generator; the caller then pulls progress snapshots from  *)
(* it.  The generator's position is pc: "created" (run() was called, its   *)
(* body has not begun), "running" (inside the row loop, after a continue), *)
(* "yielded" (suspended at the yield), "done" (returned the terminal       *)
(* summary), "raised" (left by an exception), "none" (no generator, or the *)
(* caller dropped it).                                                     *)
(***************************************************************************)
EXTENDS Integers, Sequences, FiniteSets, TLC

\* Python's None and a present value, as sequences of length 0 and 1.
None == <<>>
Some(x) == <<x>>

\* ---------------------------------------------------------------- bounds
\* Number of ImportRun instances the caller may construct.
MaxRuns == 2
\* Seconds the UTC clock may advance.
MaxClock == 1
\* Rows appended to the ledger file that is modelled on its own.
MaxAppends == 2
\* Characters of a job id.
MaxIdLen == 3
\* Digits of a percentage given on the command line.
MaxDigits == 3

\* ------------------------------------------------------------ environment
\* File names that exist at the job's binaries location.
BinariesPresent == {"f1"}

\* A metadata row as the source yields it.  malformed: an InvalidRow marker.
\* fieldFailures: the names of the fields whose validation rule fails.
\* uri: "urn:uuid:" for an item not yet in the repository, else "repo".
MkRow(id, malformed, fieldFailures, filenames, item_filenames, uri, has_changes) ==
    [id |-> id, malformed |-> malformed, fieldFailures |-> fieldFailures,
     filenames |-> filenames, item_filenames |-> item_filenames,
     uri |-> uri, has_changes |-> has_changes]

NewA == MkRow("a", FALSE, <<>>, <<"f1">>, <<>>, "urn:uuid:", FALSE)
NewC == MkRow("c", FALSE, <<>>, <<>>, <<"f1">>, "urn:uuid:", FALSE)
MissB == MkRow("b", FALSE, <<>>, <<"f1", "f2">>, <<>>, "urn:uuid:", FALSE)
BadC == MkRow("c", FALSE, <<"title">>, <<>>, <<"f3">>, "urn:uuid:", FALSE)
ChangedA == MkRow("a", FALSE, <<>>, <<>>, <<>>, "repo", TRUE)
SameB == MkRow("b", FALSE, <<>>, <<>>, <<>>, "repo", FALSE)
Malformed == MkRow("", TRUE, <<>>, <<>>, <<>>, "", FALSE)

\* The metadata files a caller may submit.
Sources ==
    { <<NewA, MissB, NewC>>,
      <<Malformed, BadC>>,
      <<NewA, NewA>>,
      <<ChangedA, SameB>> }

\* str(LineReference) of the row with the given row number.
LineNames == <<"source.csv:2", "source.csv:3", "source.csv:4", "source.csv:5">>
LineReference(n) == LineNames[n]

\* ---------------------------------------------------------------- ItemLog
\* ItemLog.load_keys: the key set rebuilt by replaying the file.
load_keys(file) == {file[i].id : i \in 1..Len(file)}

\* A writer whose file is opened for writing, not for appending.
writerow_truncating(file, row) == <<row>>

\* ItemLog.append on the file: one more line.
writerow(file, row) == Append(file, row)

\* ItemLog.append: an ItemLog is its file and its in-memory key set.
append(log, row) ==
    [file |-> writerow(log.file, row), item_keys |-> log.item_keys \cup {row.id}]

\* ---------------------------------------------------------- Row Processor
RECURSIVE missing_files(_)
\* ImportRow.validate_files: the names with no file at the binaries location.
missing_files(filenames) ==
    IF filenames = <<>> THEN <<>>
    ELSE IF Head(filenames) \in BinariesPresent
         THEN missing_files(Tail(filenames))
         ELSE <<Head(filenames)>> \o missing_files(Tail(filenames))

\* validate_files without the existence check: every file counts as present.
validate_files_unchecked(name, filenames) == <<>>

\* The failure entry of a FILES / ITEM_FILES check, none when all are present.
validate_files(name, filenames) ==
    IF Len(missing_files(filenames)) = 0 THEN <<>>
    ELSE << [name |-> name, missing |-> missing_files(filenames)] >>

\* The failed field rules of item.validate(), in field order.
field_failures(row) ==
    [i \in 1..Len(row.fieldFailures) |-> [name |-> row.fieldFailures[i], missing |-> <<>>]]

\* ImportRow.validate_item: validation.failures() of the results dictionary.
validate_item(row) ==
    field_failures(row)
      \o validate_files("FILES", row.filenames)
      \o validate_files("ITEM_FILES", row.item_filenames)

\* What the repository answers to one commit.
RepoAnswers == {"ok", "ClientError", "RepositoryError"}

\* ImportRow.create_resource: "created", or the exception that leaves it.
create_resource(row, access, answer) ==
    IF access # None THEN "TypeError"
    ELSE IF answer = "ClientError" THEN "JobError"
    ELSE IF answer = "RepositoryError" THEN "RepositoryError"
    ELSE "created"

\* update_repo patching every existing item, with or without changes.
update_repo_always_patches(row, access, answer) ==
    IF row.uri = "urn:uuid:" THEN create_resource(row, access, answer)
    ELSE IF answer = "RepositoryError" THEN "JobError"
    ELSE IF answer = "ClientError" THEN "ClientError"
    ELSE "modified"

\* ImportRow.update_repo: the ImportedItemStatus value, or the exception.
update_repo(row, access, answer) ==
    IF row.uri = "urn:uuid:" THEN create_resource(row, access, answer)
    ELSE IF row.has_changes
         THEN IF answer = "RepositoryError" THEN "JobError"
              ELSE IF answer = "ClientError" THEN "ClientError"
              ELSE "modified"
         ELSE "unchanged"

Statuses == {"created", "modified", "unchanged"}

\* ImportRow.__init__: row.get_object(repo, read_from_repo=not validate_only).
read_from_repo(validate_only) == ~validate_only

\* The branch of update_repo the item takes.
commit_path(row) ==
    IF row.uri = "urn:uuid:" THEN "create"
    ELSE IF row.has_changes THEN "update"
    ELSE "none"

\* The resources create_resource makes for the row: the main resource, the
\* page sequence of its files, its item-level files.
Resources(row) ==
    {<<row.id, "main">>}
        \cup (IF row.filenames # <<>> THEN {<<row.id, "pages">>} ELSE {})
        \cup (IF row.item_filenames # <<>> THEN {<<row.id, "files">>} ELSE {})

\* Repository.transaction: what is visible after the with block, given what
\* the block had made when it was left.
transaction(before, made, succeeded) ==
    IF succeeded THEN before \cup made ELSE before


\* ------------------------------------------------------------------ state
VARIABLES
    clock,          \* datetime.utcnow(), in whole seconds
    jobExists,      \* ImportJob.exists: the job directory is there
    configFile,     \* config.yml: None, or Some(the YAML document in the file)
    config,         \* ImportJob.config
    sourceFile,     \* source.csv: None, or Some(the rows)
    completedFile,  \* completed.log.csv, one record per line after the header
    item_keys,      \* ImportJob.completed_log.item_keys
    runDirs,        \* the timestamped run directories of the job directory
    invalidFile,    \* <run dir>/dropped-invalid.log.csv, per run directory
    failedFile,     \* <run dir>/dropped-failed.log.csv, per run directory
    inst,           \* the ImportRun instances constructed so far
    cur,            \* the ImportRun instance the caller holds (0: none)
    pc,             \* the generator's position
    raisedErr,      \* the exception that left the last call ("" if none)
    entry,          \* what made the generator: "start", "resume", "again"
    kw,             \* the arguments of the run() call that made the generator
    metadata,       \* the rows of the MetadataSpreadsheet of this run
    pos,            \* row number of the last row the stream has passed
    count,          \* the Counter of this run
    result,         \* 'type' of the terminal summary ("" until returned)
    validated,      \* history: row numbers passed to validate_item in this run
    committed,      \* history: row numbers passed to update_repo in this run
    keysAtBegin,    \* history: the completed ledger's keys when this run began
    executions,     \* history: per instance, how often run()'s body got past its guard
    dirUses,        \* history: per run directory, how many executions opened it
    repoLog,        \* history: what the last row pass asked of the repository, and
                    \* the exception the repository raised in it ("" if none)
    visible,        \* the resources of this job's items visible in the repository
    streamed,       \* history: how many rows this run has taken from the stream
    snapshots,      \* history: how many progress snapshots this run has yielded
    failedNow,      \* history: the rows whose commit reported a job error in this run
    prev            \* history: the last execution that ended.  how: "start" when it
                    \* was made by start and returned its summary, "abandoned" when
                    \* the caller dropped it at a yield, "other" for any other, ""
                    \* when there was none; failed: its failedNow

\* A ledger file and a job id on their own, outside the job above.
VARIABLES
    logFile,        \* an ItemLog's file: None, or Some(its lines, each a tuple of cells)
    logObj,         \* the ItemLog object over logFile the caller holds
    logAppended,    \* history: the keys appended to logFile since it was made
    logSeen,        \* what the caller's last read of logObj gave
    job_id,         \* the job id given to ImportJob(), a tuple of characters
    safe_id         \* ImportJob.safe_id: None until the job object is made

\* A configuration on its own, and one call of a method that changes nothing.
VARIABLES
    given,          \* the configuration fields given to start
    stored,         \* the config.yml start has written (None: not yet)
    reconstructed,  \* the config of a new ImportJob after resume (None: not yet)
    args,           \* the arguments of the call
    returned        \* what the call returned or raised (None: not called yet)

VARIABLES
    uri_list,           \* ResourceList.uri_list, each URI with what the repository and
                        \* the method do for it
    completed_file,     \* the file of the completed items log (None: no file)
    completed_obj,      \* ResourceList.completed, the ItemLog over that file
    completed_buffer,   \* ResourceList.completed_buffer (None: not set up)
    use_transaction,    \* ResourceList.use_transaction
    txn,                \* the transaction: "none", "open", "committed", "rolled back"
    listPc,             \* "constructed", "processing" or "returned"
    processed,          \* how many URIs of the list the loop has taken
    fileBefore,         \* history: the file of the completed log when process was called
    logged,             \* history: the URIs passed to log_completed during the call
    process_result      \* what process returned or raised (None: it has not returned)

core ==
    << clock, jobExists, configFile, config, sourceFile, completedFile, item_keys,
       runDirs, invalidFile, failedFile, inst, cur, pc, raisedErr, entry, kw,
       metadata, pos, count, result, validated, committed, keysAtBegin, executions,
       dirUses, repoLog, visible, streamed, snapshots, failedNow, prev >>

logVars == << logFile, logObj, logAppended, logSeen >>
idVars == << job_id, safe_id >>
confVars == << given, stored, reconstructed >>
callVars == << args, returned >>
listVars ==
    << uri_list, completed_file, completed_obj, completed_buffer, use_transaction, txn,
       listPc, processed, fileBefore, logged, process_result >>

aux == << logVars, idVars, confVars, callVars, listVars >>

vars == << core, aux >>

disk == << jobExists, configFile, sourceFile, completedFile, runDirs, invalidFile, failedFile >>
history ==
    << validated, committed, keysAtBegin, executions, dirUses, streamed, snapshots,
       failedNow, prev >>

Times == 0..MaxClock

\* ImportConfig(job_id=job_id): every other field None.
DefaultConfig == [binaries_location |-> None, access |-> None]

\* yaml.dump and yaml.safe_load: the document of a file, None for a file with
\* nothing in it.
EmptyDocument == None

\* A value of a configuration field: a string, or an rdflib URIRef.
Str(text) == [type |-> "str", text |-> text]
URIRef(text) == [type |-> "URIRef", text |-> text]

\* Python's str(v).
str(v) == Str(v.text)

\* save() dumping the values as they are.
save_unconverted(cfg) == Some(Some(cfg))

\* ImportConfig.save: the fields as strings, None left as it is, dumped to
\* the file.
save(cfg) == Some(Some([k \in DOMAIN cfg |-> IF cfg[k] = None THEN None ELSE Some(str(cfg[k][1]))]))

\* ImportConfig.from_file that takes an empty file for a configuration with
\* no field set.
from_file_lenient(file) ==
    IF file = None
    THEN [raised |-> "JobConfigError: is missing", config |-> DefaultConfig]
    ELSE IF file[1] = EmptyDocument
         THEN [raised |-> "", config |-> DefaultConfig]
         ELSE [raised |-> "", config |-> file[1][1]]

\* ImportConfig.from_file: no file and an empty file are JobConfigErrors; a
\* value serialized as "None" is read as None.
from_file(file) ==
    IF file = None
    THEN [raised |-> "JobConfigError: is missing", config |-> DefaultConfig]
    ELSE IF file[1] = EmptyDocument
         THEN [raised |-> "JobConfigError: is empty", config |-> DefaultConfig]
         ELSE [raised |-> "",
               config |-> [k \in DOMAIN file[1][1] |->
                              IF file[1][1][k] = Some(Str("None")) THEN None
                              ELSE file[1][1][k]]]

\* The job directory before the first call: none, one with no config.yml,
\* one with an empty config.yml.
JobDirectories ==
    { [exists |-> FALSE, config_file |-> None],
      [exists |-> TRUE, config_file |-> None],
      [exists |-> TRUE, config_file |-> Some(EmptyDocument)] }

\* The configurations a caller may give to start.
Configs ==
    { [binaries_location |-> Some(Str("/data")), access |-> None],
      [binaries_location |-> None, access |-> None],
      [binaries_location |-> Some(Str("/data")), access |-> Some(URIRef("umdaccess:Public"))] }

\* The arguments of run(): limit and percentage are left at None.
Kwargs ==
    [validate_only : BOOLEAN,
     limit : {None},
     import_file : {None} \cup {Some(s) : s \in Sources}]

NoKwargs == [validate_only |-> FALSE, limit |-> None, import_file |-> None]

\* No ImportRow was constructed: the repository was not asked anything.
NoRepoLog == [read |-> FALSE, path |-> "none", patches |-> 0, failed |-> ""]

\* Counter(total_items=metadata.total, rows=0, ...): a missing key reads 0.
NewCounter(total, completed) ==
    [total_items |-> total, rows |-> 0, errors |-> 0,
     initially_completed_items |-> completed, files |-> 0, valid_items |-> 0,
     invalid_items |-> 0, created_items |-> 0, updated_items |-> 0,
     unchanged_items |-> 0, skipped_items |-> 0, items_with_errors |-> 0]


\* The job directory does not exist and no ImportJob method has been called.
CoreInit ==
    /\ clock = 0
    /\ \E d \in JobDirectories : jobExists = d.exists /\ configFile = d.config_file
    /\ config = DefaultConfig
    /\ sourceFile = None
    /\ completedFile = <<>>
    /\ item_keys = {}
    /\ runDirs = {}
    /\ invalidFile = [t \in Times |-> <<>>]
    /\ failedFile = [t \in Times |-> <<>>]
    /\ inst = <<>>
    /\ cur = 0
    /\ pc = "none"
    /\ raisedErr = ""
    /\ entry = ""
    /\ kw = NoKwargs
    /\ metadata = <<>>
    /\ pos = 0
    /\ count = NewCounter(0, 0)
    /\ result = ""
    /\ validated = {}
    /\ committed = {}
    /\ keysAtBegin = {}
    /\ executions = <<>>
    /\ dirUses = [t \in Times |-> 0]
    /\ repoLog = NoRepoLog
    /\ visible = {}
    /\ streamed = 0
    /\ snapshots = 0
    /\ failedNow = {}
    /\ prev = [how |-> "", failed |-> {}]

\* No ledger file apart from the job's, and the job id of the job above.
LogInit ==
    /\ logFile = None
    /\ logObj = [write_header |-> TRUE, item_keys |-> {}, raised |-> "", reloaded |-> FALSE]
    /\ logAppended = <<>>
    /\ logSeen = [op |-> "", result |-> <<>>]

IdInit ==
    /\ job_id = <<>>
    /\ safe_id = None

ConfInit ==
    /\ given = DefaultConfig
    /\ stored = None
    /\ reconstructed = None

CallInit ==
    /\ args = None
    /\ returned = None

\* No ResourceList has been constructed.
ListInit ==
    /\ uri_list = <<>>
    /\ completed_file = None
    /\ completed_obj = [item_keys |-> {}, raised |-> ""]
    /\ completed_buffer = None
    /\ use_transaction = TRUE
    /\ txn = "none"
    /\ listPc = "constructed"
    /\ processed = 0
    /\ fileBefore = None
    /\ logged = <<>>
    /\ process_result = None

AuxInit == LogInit /\ IdInit /\ ConfInit /\ CallInit /\ ListInit

Init == CoreInit /\ AuxInit

\* The caller holds no generator that is still to be consumed.
Idle == pc \in {"none", "done", "raised"}

GuardMessage == "RuntimeError: Run completed, cannot start again"

\* What the history keeps of the generator the caller lets go of: one that
\* never got past run()'s guard was no execution.
Ended ==
    IF pc = "done"
    THEN [how |-> IF entry = "start" THEN "start" ELSE "other", failed |-> failedNow]
    ELSE IF pc = "yielded"
    THEN [how |-> "abandoned", failed |-> failedNow]
    ELSE IF pc = "raised" /\ raisedErr # GuardMessage
    THEN [how |-> "other", failed |-> failedNow]
    ELSE prev

\* A fresh generator for instance i: run()'s body has not begun.
NewGenerator(i, how) ==
    /\ cur' = i
    /\ pc' = "created"
    /\ raisedErr' = ""
    /\ entry' = how
    /\ kw' = NoKwargs
    /\ metadata' = <<>>
    /\ pos' = 0
    /\ count' = NewCounter(0, 0)
    /\ result' = ""
    /\ validated' = {}
    /\ committed' = {}
    /\ keysAtBegin' = {}
    /\ repoLog' = NoRepoLog
    /\ streamed' = 0
    /\ snapshots' = 0
    /\ failedNow' = {}
    /\ prev' = Ended

\* ImportJob.start: replace and save the configuration, make a run, call it.
Start(cfg) ==
    /\ Idle
    /\ Len(inst) < MaxRuns
    /\ config' = cfg
    /\ jobExists' = TRUE
    /\ configFile' = save(cfg)
    /\ inst' = Append(inst, [dir |-> None, loaded |-> FALSE])
    /\ executions' = Append(executions, 0)
    /\ NewGenerator(Len(inst) + 1, "start")
    /\ UNCHANGED << clock, sourceFile, completedFile, item_keys, runDirs, invalidFile,
                    failedFile, dirUses, visible >>
    /\ UNCHANGED aux

NoSuchJobDirectory == "RuntimeError: Cannot resume job: no such job directory"

\* ImportJob.resume: load the saved configuration, make a run, call it.
Resume ==
    /\ Idle
    /\ Len(inst) < MaxRuns
    /\ IF ~jobExists \/ from_file(configFile).raised # ""
       THEN /\ raisedErr' = IF ~jobExists THEN NoSuchJobDirectory
                             ELSE from_file(configFile).raised
            /\ UNCHANGED << config, inst, cur, pc, entry, kw, metadata, pos, count, result,
                            repoLog, history >>
       ELSE /\ config' = from_file(configFile).config
            /\ inst' = Append(inst, [dir |-> None, loaded |-> FALSE])
            /\ executions' = Append(executions, 0)
            /\ NewGenerator(Len(inst) + 1, "resume")
            /\ UNCHANGED dirUses
    /\ UNCHANGED << clock, disk, item_keys, visible >>
    /\ UNCHANGED aux

\* ImportJob.get_run(timestamp): ImportRun(self).load(timestamp) of a run directory.
GetRun(t) ==
    /\ Idle
    /\ Len(inst) < MaxRuns
    /\ t \in runDirs
    /\ inst' = Append(inst, [dir |-> Some(t), loaded |-> TRUE])
    /\ executions' = Append(executions, 0)
    /\ cur' = Len(inst) + 1
    /\ pc' = "none"
    /\ prev' = Ended
    /\ UNCHANGED << clock, disk, config, item_keys, raisedErr, entry, kw, metadata, pos,
                    count, result, validated, committed, keysAtBegin, dirUses, repoLog,
                    visible, streamed, snapshots, failedNow >>
    /\ UNCHANGED aux

\* The caller calls the instance it holds once more.
CallAgain ==
    /\ Idle
    /\ cur # 0
    /\ NewGenerator(cur, "again")
    /\ UNCHANGED << clock, disk, config, item_keys, inst, executions, dirUses, visible >>
    /\ UNCHANGED aux

\* The caller stops consuming the progress sequence.
Abandon ==
    /\ pc \in {"created", "yielded"}
    /\ pc' = "none"
    /\ prev' = Ended
    /\ UNCHANGED << clock, disk, config, item_keys, inst, cur, raisedErr, entry, kw,
                    metadata, pos, count, result, validated, committed, keysAtBegin,
                    executions, dirUses, repoLog, visible, streamed, snapshots, failedNow >>
    /\ UNCHANGED aux


\* ------------------------------------------------------------- Run Controller
\* run() without its guard.
RunGuard_absent(instance) == FALSE

\* ImportRun.run's guard: the instance has a directory already.
RunGuard(instance) == instance.dir # None

\* run() calling metadata.rows() without the completed ledger.
CompletedArgument_omitted(keys) == {}

\* The ledger ImportRun.run hands to metadata.rows() as `completed`.
CompletedArgument(keys) == keys

\* MetadataSpreadsheet.rows' completed filter: the row is skipped.
AlreadyCompleted(row, completed) == ~row.malformed /\ row.id \in completed

\* MetadataSpreadsheet.rows: the row number of the next row the stream
\* yields after row number p, 0 when it is exhausted.
NextRow(rows, p, limit, completed) ==
    LET candidates ==
            {j \in (p + 1)..Len(rows) :
                /\ limit = None \/ j <= limit[1]
                /\ ~AlreadyCompleted(rows[j], completed)}
    IN  IF candidates = {} THEN 0
        ELSE CHOOSE j \in candidates : \A k \in candidates : j <= k

\* MetadataSpreadsheet.has_binaries: the metadata has a FILES column in use.
has_binaries(rows) ==
    \E j \in 1..Len(rows) : rows[j].filenames # <<>> \/ rows[j].item_filenames # <<>>

\* The classification taking "every row valid" for "every row completed".
result_type_by_valid(validate_only, cnt, completed_len) ==
    IF validate_only
    THEN IF cnt.invalid_items = 0 THEN "validate_success" ELSE "validate_failed"
    ELSE IF cnt.valid_items = cnt.total_items THEN "import_complete" ELSE "import_incomplete"

\* The classification counting only what this run completed.
result_type_by_this_run(validate_only, cnt, completed_len) ==
    IF validate_only
    THEN IF cnt.invalid_items = 0 THEN "validate_success" ELSE "validate_failed"
    ELSE IF cnt.created_items + cnt.updated_items + cnt.unchanged_items = cnt.total_items
         THEN "import_complete" ELSE "import_incomplete"

\* The classification testing the valid counter instead of the invalid one.
result_type_some_valid(validate_only, cnt, completed_len) ==
    IF validate_only
    THEN IF cnt.valid_items > 0 THEN "validate_success" ELSE "validate_failed"
    ELSE IF completed_len = cnt.total_items THEN "import_complete" ELSE "import_incomplete"

\* The terminal classification of ImportRun.run.
result_type(validate_only, cnt, completed_len) ==
    IF validate_only
    THEN IF cnt.invalid_items = 0 THEN "validate_success" ELSE "validate_failed"
    ELSE IF completed_len = cnt.total_items THEN "import_complete" ELSE "import_incomplete"

\* ImportJob.store_metadata_file: source.csv is opened for writing and the
\* input is copied into it.
store_metadata_file(file, input_file) == Some(input_file)

\* run() reading the metadata before it stores the import file.
get_metadata_file_before_store(before, after) == before

\* ImportJob.get_metadata in run(): source.csv as it is after the import
\* file, if any, was stored.
get_metadata_file(before, after) == after

\* The RuntimeErrors of run() before the row loop.
NoMetadataMessage == "RuntimeError: no metadata file"
BinariesLocationMessage ==
    "RuntimeError: Must specify --binaries-location if the metadata has a FILES column"

\* The run directory of the current instance.
CurDir == inst[cur].dir[1]

\* The first next() of the generator, up to the row loop: the guard, the run
\* directory, the import file, the metadata, the binaries check, the Counter.
\* now: what datetime.utcnow() reads, the second of the previous reading or the next.
Begin(kwargs, now) ==
    /\ pc = "created"
    /\ now \in {clock, clock + 1} \cap Times
    /\ IF RunGuard(inst[cur])
       THEN /\ pc' = "raised"
            /\ raisedErr' = GuardMessage
            /\ UNCHANGED << clock, disk, inst, kw, metadata, count, keysAtBegin,
                            executions, dirUses >>
       ELSE LET source == get_metadata_file(
                               sourceFile,
                               IF kwargs.import_file # None
                               THEN store_metadata_file(sourceFile, kwargs.import_file[1])
                               ELSE sourceFile)
                saved == IF kwargs.import_file # None
                         THEN store_metadata_file(sourceFile, kwargs.import_file[1])
                         ELSE sourceFile
                failed == source = None
                          \/ (has_binaries(source[1]) /\ config.binaries_location = None)
            IN  /\ kw' = kwargs
                /\ clock' = now
                /\ inst' = [inst EXCEPT ![cur].dir = Some(now)]
                /\ runDirs' = runDirs \cup {now}
                /\ executions' = [executions EXCEPT ![cur] = @ + 1]
                /\ dirUses' = [dirUses EXCEPT ![now] = @ + 1]
                /\ sourceFile' = saved
                /\ keysAtBegin' = item_keys
                /\ IF failed
                   THEN /\ pc' = "raised"
                        /\ raisedErr' = IF source = None THEN NoMetadataMessage
                                        ELSE BinariesLocationMessage
                        /\ UNCHANGED << metadata, count >>
                   ELSE /\ pc' = "running"
                        /\ raisedErr' = ""
                        /\ metadata' = source[1]
                        /\ count' = NewCounter(Len(source[1]), Cardinality(item_keys))
                /\ UNCHANGED << jobExists, configFile, completedFile, invalidFile, failedFile >>
    /\ UNCHANGED << config, item_keys, cur, entry, pos, result, validated, committed,
                    repoLog, visible, streamed, snapshots, failedNow, prev >>
    /\ UNCHANGED aux

\* The key of a ledger line taken from the item alone.
ledger_id_of_item(item, line_reference) ==
    IF item = None THEN "" ELSE item[1]

\* getattr(item, 'identifier', line_reference): the item's identifier, the
\* line reference when there is no item.
ledger_id(item, line_reference) ==
    IF item = None THEN line_reference ELSE item[1]

\* ImportRun.drop_invalid / drop_failed: one more line in the ledger of the
\* run directory dir.
drop(file, dir, id, reason) ==
    [file EXCEPT ![dir] = writerow(@, [id |-> id, reason |-> reason])]

\* complete() on an ItemLog whose append does not record the key.
complete_unrecorded(log, id, status) ==
    [file |-> writerow(log.file, [id |-> id, status |-> status]),
     item_keys |-> log.item_keys]

\* ImportJob.complete: one more line in the completed ledger.
complete(log, id, status) == append(log, [id |-> id, status |-> status])

\* complete() called whatever update_repo() did.
complete_always(log, id, status) == complete(log, id, status)

\* The try block of the row loop: complete() follows update_repo() only
\* when that returned a status.
complete_on_status(log, id, status) ==
    IF status \in Statuses THEN complete(log, id, status) ELSE log

\* The counters with UNCHANGED not counted as skipped.
count_status_unchanged_only(cnt, status) ==
    IF status = "created" THEN [cnt EXCEPT !.created_items = @ + 1]
    ELSE IF status = "modified" THEN [cnt EXCEPT !.updated_items = @ + 1]
    ELSE IF status = "unchanged" THEN [cnt EXCEPT !.unchanged_items = @ + 1]
    ELSE cnt

\* The counters with CREATED counted as an update.
count_status_created_as_updated(cnt, status) ==
    IF status \in {"created", "modified"} THEN [cnt EXCEPT !.updated_items = @ + 1]
    ELSE IF status = "unchanged"
         THEN [cnt EXCEPT !.unchanged_items = @ + 1, !.skipped_items = @ + 1]
    ELSE cnt

\* The counters the row loop increments for a returned status.
count_status(cnt, status) ==
    IF status = "created" THEN [cnt EXCEPT !.created_items = @ + 1]
    ELSE IF status = "modified" THEN [cnt EXCEPT !.updated_items = @ + 1]
    ELSE IF status = "unchanged"
         THEN [cnt EXCEPT !.unchanged_items = @ + 1, !.skipped_items = @ + 1]
    ELSE cnt

\* A validate-only run that goes on to commit.
commit_skipped_never(validate_only) == FALSE

\* The validation-only branch of the row loop: continue before the commit.
commit_skipped(validate_only) == validate_only

\* One pass of the row loop for the row with row number j.
ProcessRow(j) ==
    LET row == metadata[j]
        failures == validate_item(row)
        filesCounted == [count EXCEPT !.files = @ + Len(row.filenames)]
        built == [NoRepoLog EXCEPT !.read = read_from_repo(kw.validate_only)]
    IN
    /\ pos' = j
    /\ streamed' = streamed + 1
    /\ IF row.malformed
       THEN \* isinstance(row, InvalidRow)
            /\ invalidFile' = drop(invalidFile, CurDir, ledger_id(None, LineReference(j)),
                                   << [name |-> "InvalidRow", missing |-> <<>>] >>)
            /\ pc' = "running"
            /\ repoLog' = NoRepoLog
            /\ UNCHANGED << completedFile, item_keys, failedFile, count, raisedErr,
                            validated, committed, visible, failedNow >>
       ELSE /\ validated' = validated \cup {j}
            /\ IF failures # <<>>
               THEN \* drop invalid items
                    /\ count' = [filesCounted EXCEPT !.invalid_items = @ + 1]
                    /\ invalidFile' = drop(invalidFile, CurDir,
                                           ledger_id(Some(row.id), LineReference(j)),
                                           failures)
                    /\ pc' = "running"
                    /\ repoLog' = built
                    /\ UNCHANGED << completedFile, item_keys, failedFile, raisedErr,
                                    committed, visible, failedNow >>
               ELSE IF commit_skipped(kw.validate_only)
               THEN \* validation-only mode
                    /\ count' = [filesCounted EXCEPT !.valid_items = @ + 1]
                    /\ pc' = "running"
                    /\ repoLog' = built
                    /\ UNCHANGED << completedFile, item_keys, invalidFile, failedFile,
                                    raisedErr, committed, visible, failedNow >>
               ELSE \E answer \in RepoAnswers, made \in SUBSET Resources(row),
                       tried \in 0..1 :
                    LET status == update_repo(row, config.access, answer)
                        valid == [filesCounted EXCEPT !.valid_items = @ + 1]
                        log == complete_on_status(
                                   [file |-> completedFile, item_keys |-> item_keys],
                                   row.id, status)
                        entered == commit_path(row) = "create" /\ status # "TypeError"
                    IN  \* made: what the transaction had made when it was left;
                        \* tried: the update() calls of a failing update
                        /\ made = IF ~entered THEN {}
                                  ELSE IF status = "created" THEN Resources(row)
                                  ELSE made
                        /\ tried = IF commit_path(row) # "update" THEN 0
                                   ELSE IF status = "modified" THEN 1
                                   ELSE tried
                        /\ committed' = committed \cup {j}
                        /\ completedFile' = log.file
                        /\ item_keys' = log.item_keys
                        /\ visible' = transaction(visible, made, status = "created")
                        /\ repoLog' = [built EXCEPT
                                          !.path = commit_path(row),
                                          !.patches = tried,
                                          !.failed = IF status \in Statuses \cup {"TypeError"}
                                                     THEN "" ELSE answer]
                        /\ IF status \in Statuses
                           THEN /\ count' = count_status(valid, status)
                                /\ pc' = "yielded"
                                /\ UNCHANGED << failedFile, raisedErr, failedNow >>
                           ELSE IF status = "JobError"
                           THEN /\ count' = [valid EXCEPT !.items_with_errors = @ + 1]
                                /\ failedFile' = drop(failedFile, CurDir,
                                                      ledger_id(Some(row.id), LineReference(j)),
                                                      answer)
                                /\ failedNow' = failedNow \cup {j}
                                /\ pc' = "yielded"
                                /\ UNCHANGED raisedErr
                           ELSE \* an exception run() does not catch
                                /\ count' = valid
                                /\ pc' = "raised"
                                /\ raisedErr' = status
                                /\ UNCHANGED << failedFile, failedNow >>
                        /\ UNCHANGED invalidFile
    /\ snapshots' = IF pc' = "yielded" THEN snapshots + 1 ELSE snapshots

\* The generator is resumed (or has just begun) and the stream yields a row.
Row ==
    /\ pc \in {"running", "yielded"}
    /\ NextRow(metadata, pos, kw.limit, CompletedArgument(item_keys)) # 0
    /\ ProcessRow(NextRow(metadata, pos, kw.limit, CompletedArgument(item_keys)))
    /\ UNCHANGED << clock, jobExists, configFile, config, sourceFile, runDirs, inst, cur,
                    entry, kw, metadata, result, keysAtBegin, executions, dirUses, prev >>
    /\ UNCHANGED aux

\* The stream is exhausted: the terminal summary is returned.
Finish ==
    /\ pc \in {"running", "yielded"}
    /\ NextRow(metadata, pos, kw.limit, CompletedArgument(item_keys)) = 0
    /\ result' = result_type(kw.validate_only, count, Cardinality(item_keys))
    /\ pc' = "done"
    /\ UNCHANGED << clock, disk, config, item_keys, inst, cur, raisedErr, entry, kw,
                    metadata, pos, count, validated, committed, keysAtBegin, executions,
                    dirUses, repoLog, visible, streamed, snapshots, failedNow, prev >>
    /\ UNCHANGED aux

Next ==
    \/ \E cfg \in Configs : Start(cfg)
    \/ Resume
    \/ \E t \in Times : GetRun(t)
    \/ CallAgain
    \/ Abandon
    \/ \E kwargs \in Kwargs, now \in Times : Begin(kwargs, now)
    \/ Row
    \/ Finish

Spec == Init /\ [][Next]_vars


\* ----------------------------------------------------- ItemLog, on its own
\* The ledger of one file, as ImportJob makes its completed log: two of its
\* columns, the key column first.
LogFieldnames == <<"id", "status">>
LogKeyfield == "id"
LogKeys == {"k1", "k2", "k3"}

\* csv.DictWriter.writerow: the cells of the row in the order of the fieldnames.
LogLine(key) == <<key, "created">>

\* csv.DictReader: the first line names the columns of every other line; of
\* two columns with one name the later one is kept.
DictReader(lines) ==
    IF lines = <<>> THEN <<>>
    ELSE LET names == lines[1]
             Column(n) == CHOOSE c \in 1..Len(names) :
                              /\ names[c] = n
                              /\ \A d \in 1..Len(names) : names[d] = n => d <= c
         IN  [i \in 1..(Len(lines) - 1) |->
                 [n \in {names[c] : c \in 1..Len(names)} |-> lines[i + 1][Column(n)]]]

\* ItemLog.__iter__: the rows of the file, none when there is no file.
ItemLog_iter(file) ==
    IF file = None THEN <<>> ELSE DictReader(file[1])

\* ItemLog.load_keys: row[keyfield] of every row; a row without that column
\* raises KeyError.
ItemLog_load_keys(file) ==
    LET rows == ItemLog_iter(file)
    IN  IF \E i \in 1..Len(rows) : LogKeyfield \notin DOMAIN rows[i]
        THEN [raised |-> "KeyError", item_keys |-> {}]
        ELSE [raised |-> "", item_keys |-> {rows[i][LogKeyfield] : i \in 1..Len(rows)}]

\* ItemLog.create: the header line, when the log writes one.
ItemLog_create(write_header) ==
    IF write_header THEN <<LogFieldnames>> ELSE <<>>

\* An ItemLog whose constructor creates the file.
ItemLog_init_creating(file, write_header) ==
    [file |-> IF file = None THEN Some(ItemLog_create(write_header)) ELSE file,
     obj |-> [write_header |-> write_header,
              item_keys |-> ItemLog_load_keys(file).item_keys,
              raised |-> ItemLog_load_keys(file).raised]]

\* ItemLog.__init__: the keys are loaded if the file exists; the file is
\* left as it is.
ItemLog_init(file, write_header) ==
    [file |-> file,
     obj |-> [write_header |-> write_header,
              item_keys |-> ItemLog_load_keys(file).item_keys,
              raised |-> ItemLog_load_keys(file).raised]]

\* ItemLog.writer and ItemLog.append: the file is created if it is not
\* there, the row is written after its last line, the key is recorded.
ItemLog_append(file, obj, key) ==
    LET lines == IF file = None THEN ItemLog_create(obj.write_header) ELSE file[1]
    IN  [file |-> Some(Append(lines, LogLine(key))),
         obj |-> [obj EXCEPT !.item_keys = @ \cup {key}]]

\* ItemLog.__contains__ and ItemLog.__len__.
ItemLog_contains(obj, key) == key \in obj.item_keys
ItemLog_len(obj) == Cardinality(obj.item_keys)

\* The object the caller holds.  reloaded (history): it was constructed over
\* the file as it is now.
Held(obj, reloaded) ==
    [write_header |-> obj.write_header, item_keys |-> obj.item_keys,
     raised |-> obj.raised, reloaded |-> reloaded]

\* The caller holds a fresh ItemLog over a file that does not exist.
InitItemLog ==
    /\ CoreInit
    /\ ListInit
    /\ logFile = None
    /\ \E h \in BOOLEAN :
           logObj = Held(ItemLog_init(None, h).obj, FALSE)
    /\ logAppended = <<>>
    /\ logSeen = [op |-> "", result |-> <<>>]
    /\ IdInit
    /\ ConfInit
    /\ CallInit

\* The caller constructs another ItemLog over the file.
LogNew(h) ==
    /\ logFile' = ItemLog_init(logFile, h).file
    /\ logObj' = Held(ItemLog_init(logFile, h).obj, TRUE)
    /\ UNCHANGED << logAppended, logSeen, idVars, confVars, callVars, listVars, core >>

\* The caller appends a row.
LogAppend(k) ==
    /\ logObj.raised = ""
    /\ Len(logAppended) < MaxAppends
    /\ logFile' = ItemLog_append(logFile, logObj, k).file
    /\ logObj' = Held(ItemLog_append(logFile, logObj, k).obj, FALSE)
    /\ logAppended' = Append(logAppended, k)
    /\ UNCHANGED << logSeen, idVars, confVars, callVars, listVars, core >>

\* The caller iterates over the log, tests a key, or takes the length.
LogRead(op, k) ==
    /\ logObj.raised = ""
    /\ logSeen' = [op |-> op,
                   result |-> IF op = "iter" THEN ItemLog_iter(logFile)
                              ELSE IF op = "contains" THEN ItemLog_contains(logObj, k)
                              ELSE ItemLog_len(logObj)]
    /\ UNCHANGED << logFile, logObj, logAppended, idVars, confVars, callVars, listVars, core >>

NextItemLog ==
    \/ \E h \in BOOLEAN : LogNew(h)
    \/ \E k \in LogKeys : LogAppend(k)
    \/ \E op \in {"iter", "contains", "len"}, k \in LogKeys : LogRead(op, k)

SpecItemLog == InitItemLog /\ [][NextItemLog]_vars


\* -------------------------------------------------- the job's directory name
\* The characters job ids are made of: a letter, a digit, a capital, and the
\* slash and the percent sign.
IdChars == {"f", "2", "F", "/", "%"}
JobIds == UNION {[1..n -> IdChars] : n \in 0..MaxIdLen}

\* urllib.parse.quote never quotes letters, digits and "_.-~".
AlwaysSafe == {"a", "b", "f", "o", "r", "F", "2", "5"}

\* The two hexadecimal digits of the character's byte.
PercentCode == [c \in {"/", "%"} |-> IF c = "/" THEN <<"2", "F">> ELSE <<"2", "5">>]

RECURSIVE quote(_, _)
\* urllib.parse.quote(string, safe): every character that is not always safe
\* and not in safe becomes a percent sign and its code.
quote(string, safe) ==
    IF string = <<>> THEN <<>>
    ELSE (IF Head(string) \in AlwaysSafe \cup safe
          THEN <<Head(string)>>
          ELSE <<"%">> \o PercentCode[Head(string)])
         \o quote(Tail(string), safe)

\* quote() with the default of its safe parameter.
quote_job_id_default(id) == quote(id, {"/"})

\* ImportJob.__init__: self.safe_id = urllib.parse.quote(job_id, safe='').
quote_job_id(id) == quote(id, {})

\* The caller has a job id.
InitSafeId ==
    /\ CoreInit
    /\ ListInit
    /\ LogInit
    /\ ConfInit
    /\ CallInit
    /\ job_id \in JobIds
    /\ safe_id = None

\* ImportJob(job_id, jobs_dir).
NewJob ==
    /\ safe_id = None
    /\ safe_id' = Some(quote_job_id(job_id))
    /\ UNCHANGED << job_id, logVars, confVars, callVars, listVars, core >>

NextSafeId == NewJob

SpecSafeId == InitSafeId /\ [][NextSafeId]_vars


\* ------------------------------------------------ a configuration, on its own
\* The values a caller may give to a field of start: nothing, a path, the
\* word None, an access class, each as a string or as a URIRef.
ConfigValues ==
    {None} \cup {Some(Str(t)) : t \in {"/data", "None", "umdaccess:Public"}}
           \cup {Some(URIRef(t)) : t \in {"/data", "None", "umdaccess:Public"}}

\* dataclasses.replace(self.config, **config) in start.
replace(cfg, fields) == [k \in DOMAIN cfg |-> IF k \in DOMAIN fields THEN fields[k] ELSE cfg[k]]

\* The caller has the fields to start a job with.
InitConfig ==
    /\ CoreInit
    /\ ListInit
    /\ LogInit
    /\ IdInit
    /\ CallInit
    /\ given \in [DOMAIN DefaultConfig -> ConfigValues]
    /\ stored = None
    /\ reconstructed = None

\* ImportJob.start, up to the saved config.yml.
ConfigStart ==
    /\ stored = None
    /\ stored' = save(replace(DefaultConfig, given))
    /\ UNCHANGED << given, reconstructed, logVars, idVars, callVars, listVars, core >>

\* ImportJob.resume on a new ImportJob object, up to the loaded config.
ConfigResume ==
    /\ stored # None
    /\ reconstructed = None
    /\ from_file(stored).raised = ""
    /\ reconstructed' = Some(from_file(stored).config)
    /\ UNCHANGED << given, stored, logVars, idVars, callVars, listVars, core >>

NextConfig == ConfigStart \/ ConfigResume

SpecConfig == InitConfig /\ [][NextConfig]_vars


\* ------------------------------------------------------- the runs of a job
\* The digits of a run directory's name.
TimestampDigits == 14

\* A name of TimestampDigits characters that ends in the given one.
Stamp(last) ==
    [i \in 1..TimestampDigits |-> IF i = 1 THEN "2" ELSE IF i = TimestampDigits THEN last ELSE "0"]

\* What a job directory may hold: run directories, a directory with a
\* letter in its name, ones with a digit less and a digit more, a file named
\* like a run, and config.yml.
DirEntries ==
    { [name |-> Stamp("0"), is_dir |-> TRUE],
      [name |-> Stamp("1"), is_dir |-> TRUE],
      [name |-> Stamp("a"), is_dir |-> TRUE],
      [name |-> SubSeq(Stamp("0"), 1, TimestampDigits - 1), is_dir |-> TRUE],
      [name |-> Stamp("0") \o <<"0">>, is_dir |-> TRUE],
      [name |-> Stamp("2"), is_dir |-> FALSE],
      [name |-> <<"c", "o", "n", "f", "i", "g", ".", "y", "m", "l">>, is_dir |-> FALSE] }

\* The job directory: None when it does not exist, else Some(its entries).
JobDirs == {None} \cup {Some(d) : d \in SUBSET DirEntries}

DigitChars == {"0", "1", "2"}

\* is_run_dir: a directory whose name matches ^\d{14}$.
is_run_dir(path) ==
    /\ path.is_dir
    /\ Len(path.name) = TimestampDigits
    /\ \A i \in 1..Len(path.name) : path.name[i] \in DigitChars

\* The order of the characters of the names.
CharRank(c) ==
    IF c = "." THEN 0 ELSE IF c = "0" THEN 1 ELSE IF c = "1" THEN 2 ELSE IF c = "2" THEN 3 ELSE 4

RECURSIVE LessStr(_, _)
\* Python's a < b on strings.
LessStr(a, b) ==
    IF b = <<>> THEN FALSE
    ELSE IF a = <<>> THEN TRUE
    ELSE IF Head(a) = Head(b) THEN LessStr(Tail(a), Tail(b))
    ELSE CharRank(Head(a)) < CharRank(Head(b))

RECURSIVE sorted(_, _)
\* sorted(names, reverse=reverse).
sorted(names, reverse) ==
    IF names = {} THEN <<>>
    ELSE LET first == CHOOSE x \in names :
                          \A y \in names : IF reverse THEN ~LessStr(x, y) ELSE ~LessStr(y, x)
         IN  <<first>> \o sorted(names \ {first}, reverse)

\* ImportJob.runs: Path.iterdir raises FileNotFoundError when the directory
\* is not there.
runs(dir) ==
    IF dir = None THEN [raised |-> "FileNotFoundError", value |-> <<>>]
    ELSE [raised |-> "",
          value |-> sorted({d.name : d \in {e \in dir[1] : is_run_dir(e)}}, TRUE)]

\* ImportRun.load: the run of the directory with that name.
load(dir, timestamp) ==
    IF \E e \in dir[1] : e.name = timestamp /\ e.is_dir
    THEN [raised |-> "", value |-> Some([timestamp |-> timestamp])]
    ELSE [raised |-> "RuntimeError", value |-> None]

\* ImportJob.latest_run: the run of runs[0]; IndexError, and nothing else,
\* gives None.
latest_run(dir) ==
    IF runs(dir).raised # "" THEN [raised |-> runs(dir).raised, value |-> None]
    ELSE IF runs(dir).value = <<>> THEN [raised |-> "", value |-> None]
    ELSE load(dir, runs(dir).value[1])

\* The caller has a job directory, or none, and a method to call.
InitRuns ==
    /\ CoreInit
    /\ ListInit
    /\ LogInit
    /\ IdInit
    /\ ConfInit
    /\ args \in [method : {"runs", "latest_run"}, dir : JobDirs]
    /\ returned = None

\* job.runs
CallRuns ==
    /\ returned = None
    /\ args.method = "runs"
    /\ returned' = Some(runs(args.dir))
    /\ UNCHANGED << args, logVars, idVars, confVars, listVars, core >>

\* job.latest_run()
CallLatestRun ==
    /\ returned = None
    /\ args.method = "latest_run"
    /\ returned' = Some(latest_run(args.dir))
    /\ UNCHANGED << args, logVars, idVars, confVars, listVars, core >>

NextRuns == CallRuns \/ CallLatestRun

SpecRuns == InitRuns /\ [][NextRuns]_vars


\* ------------------------------------------------- the source of a binary
\* Strings are tuples of characters.  The base locations: one of each form
\* get_source recognizes, with and without a slash at the end, and plain
\* paths, some of which begin like a scheme.
BaseLocations ==
    { <<"z", "i", "p", ":", "/", "t", "m", "p", "/", "a", ".", "z", "i", "p">>,
      <<"z", "i", "p", "+", "s", "f", "t", "p", ":", "u", "@", "h", "/", "a", ".", "z", "i", "p">>,
      <<"s", "f", "t", "p", ":", "u", "@", "h", "/", "d">>,
      <<"s", "f", "t", "p", ":", "u", "@", "h", "/", "d", "/">>,
      <<"h", "t", "t", "p", ":", "/", "/", "h", "/", "d">>,
      <<"h", "t", "t", "p", ":", "/", "/", "h", "/", "d", "/">>,
      <<"h", "t", "t", "p", "s", ":", "/", "/", "h">>,
      <<"/", "d", "a", "t", "a">>,
      <<"d", "a", "t", "a", "/">>,
      <<"z", "i", "p">>,
      <<"s", "f", "t", "p", "x", "/", "d">>,
      <<"h", "t", "t", "p", "d">> }

\* The relative paths of binaries.
RelativePaths ==
    { <<"x", "/", "y", ".", "t", "i", "f">>,
      <<"a", "/", "b", ".", "t", "x", "t">>,
      <<"x">> }

\* ImportJob.ssh_private_key: None, or the name of a key file.
PrivateKeys == {None, Some("id_rsa")}

\* str.startswith and str.endswith.
startswith(string, prefix) ==
    Len(string) >= Len(prefix) /\ SubSeq(string, 1, Len(prefix)) = prefix
endswith(string, suffix) ==
    /\ Len(string) >= Len(suffix)
    /\ SubSeq(string, Len(string) - Len(suffix) + 1, Len(string)) = suffix

\* string[n:]
slice_from(string, n) == SubSeq(string, n + 1, Len(string))

\* os.path.join(a, p) on a POSIX system.
os_path_join(a, p) ==
    IF startswith(p, <<"/">>) THEN p
    ELSE IF a = <<>> \/ endswith(a, <<"/">>) THEN a \o p
    ELSE a \o <<"/">> \o p

\* The handles: the class, the location (zip file, remote location, URL or
\* local path), the path inside an archive, and the ssh options.
ZipFileSource(zip_file, path, ssh_options) ==
    [class |-> "ZipFileSource", location |-> zip_file, path |-> Some(path),
     ssh_options |-> ssh_options]
RemoteFileSource(location, ssh_options) ==
    [class |-> "RemoteFileSource", location |-> location, path |-> None,
     ssh_options |-> ssh_options]
HTTPFileSource(uri) ==
    [class |-> "HTTPFileSource", location |-> uri, path |-> None, ssh_options |-> None]
LocalFileSource(localpath) ==
    [class |-> "LocalFileSource", location |-> localpath, path |-> None, ssh_options |-> None]

\* The ssh options of a handle that has them: the key file name, None or not.
KeyFilename(ssh_private_key) == Some([key_filename |-> ssh_private_key])

\* get_source testing for "zip" where it tests for "zip:".
get_source_zip_any(base_location, path, ssh_private_key) ==
    IF startswith(base_location, <<"z", "i", "p">>)
    THEN ZipFileSource(slice_from(base_location, 4), path, None)
    ELSE IF startswith(base_location, <<"s", "f", "t", "p", ":">>)
    THEN RemoteFileSource(os_path_join(base_location, path), KeyFilename(ssh_private_key))
    ELSE IF \/ startswith(base_location, <<"h", "t", "t", "p", ":">>)
            \/ startswith(base_location, <<"h", "t", "t", "p", "s", ":">>)
    THEN HTTPFileSource((IF endswith(base_location, <<"/">>) THEN base_location
                         ELSE base_location \o <<"/">>) \o path)
    ELSE LocalFileSource(os_path_join(base_location, path))

\* ImportJob.get_source.
get_source(base_location, path, ssh_private_key) ==
    IF startswith(base_location, <<"z", "i", "p", ":">>)
    THEN ZipFileSource(slice_from(base_location, 4), path, None)
    ELSE IF startswith(base_location, <<"s", "f", "t", "p", ":">>)
    THEN RemoteFileSource(os_path_join(base_location, path), KeyFilename(ssh_private_key))
    ELSE IF \/ startswith(base_location, <<"h", "t", "t", "p", ":">>)
            \/ startswith(base_location, <<"h", "t", "t", "p", "s", ":">>)
    THEN HTTPFileSource((IF endswith(base_location, <<"/">>) THEN base_location
                         ELSE base_location \o <<"/">>) \o path)
    ELSE IF startswith(base_location, <<"z", "i", "p", "+", "s", "f", "t", "p", ":">>)
    THEN ZipFileSource(slice_from(base_location, 4), path, KeyFilename(ssh_private_key))
    ELSE LocalFileSource(os_path_join(base_location, path))

\* The caller has a job with a key, a base location and a path.
InitSource ==
    /\ CoreInit
    /\ ListInit
    /\ LogInit
    /\ IdInit
    /\ ConfInit
    /\ args \in [base_location : BaseLocations, path : RelativePaths,
                  ssh_private_key : PrivateKeys]
    /\ returned = None

\* job.get_source(base_location, path)
CallGetSource ==
    /\ returned = None
    /\ returned' = Some(get_source(args.base_location, args.path, args.ssh_private_key))
    /\ UNCHANGED << args, logVars, idVars, confVars, listVars, core >>

NextSource == CallGetSource

SpecSource == InitSource /\ [][NextSource]_vars


\* ------------------------------------------------ the percentage argument
\* The decimal digits and their values.
DigitValue == [c \in {"0", "1", "2", "3", "4", "5", "6", "7", "8", "9"} |->
                  IF c = "0" THEN 0 ELSE IF c = "1" THEN 1 ELSE IF c = "2" THEN 2
                  ELSE IF c = "3" THEN 3 ELSE IF c = "4" THEN 4 ELSE IF c = "5" THEN 5
                  ELSE IF c = "6" THEN 6 ELSE IF c = "7" THEN 7 ELSE IF c = "8" THEN 8
                  ELSE 9]

\* What the command line may give for --percent: digits, with or without a
\* minus sign before them.
PercentArguments ==
    LET digits == UNION {[1..n -> DOMAIN DigitValue] : n \in 1..MaxDigits}
    IN  digits \cup {<<"-">> \o d : d \in digits}

RECURSIVE int_of_digits(_)
int_of_digits(digits) ==
    IF digits = <<>> THEN 0
    ELSE 10 * int_of_digits(SubSeq(digits, 1, Len(digits) - 1))
             + DigitValue[digits[Len(digits)]]

\* Python's int(n) of a decimal string.
int(n) == IF Head(n) = "-" THEN 0 - int_of_digits(Tail(n)) ELSE int_of_digits(n)

PercentMessage == "ArgumentTypeError: Percent param must be 1-99"

\* percentile(n): `not p > 0 and p < 100` is `(not p > 0) and (p < 100)`.
percentile(n) ==
    LET p == int(n)
    IN  IF (~(p > 0)) /\ p < 100
        THEN [raised |-> PercentMessage, value |-> None]
        ELSE [raised |-> "", value |-> Some(p)]

\* The caller has an argument for --percent.
InitPercent ==
    /\ CoreInit
    /\ ListInit
    /\ LogInit
    /\ IdInit
    /\ ConfInit
    /\ args \in [n : PercentArguments]
    /\ returned = None

\* argparse calls percentile(n).
CallPercentile ==
    /\ returned = None
    /\ returned' = Some(percentile(args.n))
    /\ UNCHANGED << args, logVars, idVars, confVars, listVars, core >>

NextPercent == CallPercentile

SpecPercent == InitPercent /\ [][NextPercent]_vars

\* ------------------------------------------------------------- Properties
\* The rows of the current metadata.
RowNumbers == 1..Len(metadata)

\* The names of a FILES / ITEM_FILES cell with no file at the binaries location.
Absent(filenames) == SelectSeq(filenames, LAMBDA f : f \notin BinariesPresent)

\* The row has a failing validation entry.
HasFailingEntry(row) ==
    \/ row.fieldFailures # <<>>
    \/ Absent(row.filenames) # <<>>
    \/ Absent(row.item_filenames) # <<>>

\* This step is one pass of the row loop (for the row with number pos').
RowStep == pc \in {"running", "yielded"} /\ pos' # pos

\* This step is the first next() of a generator of run().
BeginStep == pc = "created" /\ pc' \in {"running", "raised"}

\* The in-memory key set of the completed ledger is what its file holds, and
\* the file has one line for each key.
LedgerConsistent ==
    /\ item_keys = load_keys(completedFile)
    /\ Len(completedFile) = Cardinality(item_keys)

\* C1: a row whose identifier is in the completed ledger when a run begins is
\* never passed to validation or to commit in that run.
C1_CompletedRowsNotReprocessed ==
    \A j \in validated \cup committed : metadata[j].id \notin keysAtBegin

\* A resumed run has ended; its source has a row that was completed when it
\* began, and it validated another row.
C1_Witness ==
    /\ pc = "done"
    /\ entry = "resume"
    /\ validated # {}
    /\ \E j \in RowNumbers : ~metadata[j].malformed /\ metadata[j].id \in keysAtBegin

\* C2, as stated: every row whose commit reported a job error in a run is
\* streamed again, and so retried, by the next resume of the job.
C2_FailedRowRetriedByNextResume ==
    (pc = "done" /\ entry = "resume" /\ kw.import_file = None)
        => \A j \in prev.failed : j \in validated

\* C2, amended: the step in which a row's commit reports a job error appends
\* nothing to the completed ledger; and the next resume streams that row again
\* and retries it, unless another row with the same identifier has been
\* committed successfully by then.
C2_FailedRowNotCompleted ==
    /\ [][ failedFile' # failedFile
             => /\ completedFile' = completedFile
                /\ item_keys' = item_keys ]_vars
    /\ []( (pc = "done" /\ entry = "resume" /\ kw.import_file = None)
             => \A j \in prev.failed :
                    \/ j \in validated
                    \/ /\ metadata[j].id \in item_keys
                       /\ \E k \in RowNumbers \ {j} : metadata[k].id = metadata[j].id )

\* A resumed run has ended and has validated a row that reported a job error
\* in the run before it.
C2_Witness ==
    /\ pc = "done"
    /\ entry = "resume"
    /\ kw.import_file = None
    /\ prev.failed \cap validated # {}

\* C3: a repository-level failure while creating or updating an item is
\* reported as a job error and never leaves run() as an exception.
C3_RepositoryFailureIsJobError ==
    ~(pc = "raised" /\ raisedErr \in {"ClientError", "RepositoryError"})

\* C4: a well-formed row with a failing validation entry gets exactly one line
\* in this run's invalid ledger, whose FILES / ITEM_FILES reasons list exactly
\* the names that do not exist; it is not committed, not completed, and the
\* loop goes on to the next row.  No committed row has a failing entry.
C4_InvalidRowDropped ==
    /\ [][ (RowStep /\ ~metadata[pos'].malformed /\ HasFailingEntry(metadata[pos']))
             => LET row == metadata[pos']
                    before == invalidFile[CurDir]
                    after == invalidFile'[CurDir]
                    line == after[Len(after)]
                    Entries(name) ==
                        {i \in 1..Len(line.reason) : line.reason[i].name = name}
                IN  /\ after = Append(before, line)
                    /\ line.id = row.id
                    /\ \A i \in Entries("FILES") :
                           line.reason[i].missing = Absent(row.filenames)
                    /\ \A i \in Entries("ITEM_FILES") :
                           line.reason[i].missing = Absent(row.item_filenames)
                    /\ Cardinality(Entries("FILES"))
                           = IF Absent(row.filenames) = <<>> THEN 0 ELSE 1
                    /\ Cardinality(Entries("ITEM_FILES"))
                           = IF Absent(row.item_filenames) = <<>> THEN 0 ELSE 1
                    /\ {line.reason[i].name : i \in 1..Len(line.reason)}
                           \ {"FILES", "ITEM_FILES"}
                           = {row.fieldFailures[i] : i \in 1..Len(row.fieldFailures)}
                    /\ committed' = committed
                    /\ completedFile' = completedFile
                    /\ item_keys' = item_keys
                    /\ failedFile' = failedFile
                    /\ pc' = "running" ]_vars
    /\ [](\A j \in committed : ~HasFailingEntry(metadata[j]))

\* The loop has just dropped a row that names a missing file, in a full import.
C4_Witness ==
    /\ pc = "running"
    /\ ~kw.validate_only
    /\ pos >= 1
    /\ metadata[pos] = MissB
    /\ Len(invalidFile[CurDir]) >= 1

\* C5: run() is executed at most once for an instance, and never for a loaded
\* one; the first next() of a generator made on an instance that has run or was
\* loaded raises the guard's error and leaves the disk, the ledgers and the
\* row position as they were.
C5_RunAtMostOnce ==
    /\ [](\A i \in 1..Len(inst) :
              /\ executions[i] <= 1
              /\ inst[i].loaded => executions[i] = 0)
    /\ [][ (BeginStep /\ (executions[cur] >= 1 \/ inst[cur].loaded))
             => /\ pc' = "raised"
                /\ raisedErr' = GuardMessage
                /\ UNCHANGED << disk, item_keys, inst, pos, validated, committed,
                                executions, dirUses >> ]_vars

\* A second invocation on an instance that has run has been refused.
C5_Witness ==
    /\ pc = "raised"
    /\ raisedErr = GuardMessage
    /\ executions[cur] = 1

\* A second invocation on a loaded instance has been refused.
C5_WitnessLoaded ==
    /\ pc = "raised"
    /\ raisedErr = GuardMessage
    /\ inst[cur].loaded

\* C6: no run directory is used by two executions of the job.
C6_RunDirectoryNeverReused ==
    \A t \in Times : dirUses[t] <= 1

\* C7: when a full import run has exhausted its rows, its terminal type is
\* import_complete if the completed ledger has as many entries as the metadata
\* has rows, and import_incomplete if not.
C7_ImportCompleteIffLedgerSizeIsTotal ==
    (pc = "done" /\ ~kw.validate_only)
        => /\ LedgerConsistent
           /\ result = IF Len(completedFile) = Len(metadata)
                       THEN "import_complete" ELSE "import_incomplete"

\* Full import runs have ended both ways.
C7_Witness ==
    /\ pc = "done"
    /\ ~kw.validate_only
    /\ result = "import_complete"
    /\ Len(completedFile) = Len(metadata)
    /\ committed # {}

C7_WitnessIncomplete ==
    /\ pc = "done"
    /\ ~kw.validate_only
    /\ result = "import_incomplete"
    /\ committed # {}

\* The rows of the current metadata that name a missing file.
MissingFileRows ==
    {j \in RowNumbers :
        Absent(metadata[j].filenames) # <<>> \/ Absent(metadata[j].item_filenames) # <<>>}

\* The case of C8: the first execution of the job, a full import that has ended;
\* every row is well-formed, passes its field rules and has its own identifier;
\* at least one names a missing file, the others are new items, and no commit
\* reported an error.
C8_Case ==
    /\ pc = "done"
    /\ entry = "start"
    /\ ~kw.validate_only
    /\ \A i \in 1..Len(inst) : executions[i] = IF i = cur THEN 1 ELSE 0
    /\ \A j \in RowNumbers :
           /\ ~metadata[j].malformed
           /\ metadata[j].fieldFailures = <<>>
           /\ \A k \in RowNumbers : metadata[k].id = metadata[j].id => k = j
    /\ \A j \in RowNumbers \ MissingFileRows : metadata[j].uri = "urn:uuid:"
    /\ MissingFileRows # {}
    /\ failedNow = {}

\* C8: on a fresh job with n rows, k >= 1 of them naming a missing file and
\* the others new valid items the repository accepts, a full import ends with
\* valid_items = n-k, invalid_items = k, created_items = n-k, n-k lines in the
\* completed ledger, k lines in the invalid ledger and type import_incomplete.
C8_MissingFileScenario ==
    C8_Case
        => LET n == Len(metadata)
               k == Cardinality(MissingFileRows)
           IN  /\ count.valid_items = n - k
               /\ count.invalid_items = k
               /\ count.created_items = n - k
               /\ Len(completedFile) = n - k
               /\ Cardinality(item_keys) = n - k
               /\ Len(invalidFile[CurDir]) = k
               /\ result = "import_incomplete"

\* The scenario with n = 3 and k = 1 has run to its end.
C8_Witness ==
    /\ C8_Case
    /\ Len(metadata) = 3
    /\ Cardinality(MissingFileRows) = 1
    /\ count.created_items = 2

\* The case of C9: a full-import resume with the stored source has ended; the
\* execution before it was a start that returned, and the identifier of every
\* row was in the completed ledger when the resume began.
C9_Case ==
    /\ pc = "done"
    /\ entry = "resume"
    /\ prev.how = "start"
    /\ ~kw.validate_only
    /\ kw.import_file = None
    /\ \A j \in RowNumbers : ~metadata[j].malformed /\ metadata[j].id \in keysAtBegin

\* C9, as stated: resume after a start that completed every row, the source
\* unchanged, validates and commits no row, appends nothing to the completed
\* ledger and ends with import_complete.
C9_ResumeAfterCompleteStart ==
    C9_Case
        => /\ validated = {}
           /\ committed = {}
           /\ item_keys = keysAtBegin
           /\ result = "import_complete"

\* C9, amended: such a resume validates and commits no row and appends nothing
\* to the completed ledger; it ends with import_complete when the ledger has as
\* many entries as the source has rows, and with import_incomplete when it has
\* not (two rows share an identifier, or the ledger holds identifiers of
\* another source).
C9_ResumeAfterCompleteStartAmended ==
    C9_Case
        => /\ validated = {}
           /\ committed = {}
           /\ item_keys = keysAtBegin
           /\ Len(completedFile) = Cardinality(keysAtBegin)
           /\ result = IF Cardinality(keysAtBegin) = Len(metadata)
                       THEN "import_complete" ELSE "import_incomplete"

\* A resume after a start that completed both rows has ended with import_complete.
C9_Witness ==
    /\ C9_Case
    /\ Len(metadata) = 2
    /\ result = "import_complete"

\* C10: a validate-only run that has exhausted its rows has type
\* validate_success if it counted no invalid item, validate_failed if it did.
C10_ValidateOnlyTerminalType ==
    (pc = "done" /\ kw.validate_only)
        => result = IF count.invalid_items = 0
                    THEN "validate_success" ELSE "validate_failed"

\* Validate-only runs have ended both ways.
C10_Witness ==
    /\ pc = "done"
    /\ kw.validate_only
    /\ count.invalid_items >= 1
    /\ result = "validate_failed"

C10_WitnessSuccess ==
    /\ pc = "done"
    /\ kw.validate_only
    /\ validated # {}
    /\ count.invalid_items = 0
    /\ result = "validate_success"

\* C11: a validate-only run passes no row to update_repo, builds every row's
\* object without reading from the repository, asks the repository for no
\* write, and leaves the completed ledger and the repository as they were.
C11_ValidateOnlyNeverCommits ==
    /\ [](kw.validate_only
            => /\ committed = {}
               /\ item_keys = keysAtBegin
               /\ ~repoLog.read
               /\ repoLog.path = "none"
               /\ repoLog.patches = 0)
    /\ [][ kw.validate_only
             => /\ completedFile' = completedFile
                /\ item_keys' = item_keys
                /\ visible' = visible ]_vars

\* A validate-only run has ended after it found a row valid.
C11_Witness ==
    /\ pc = "done"
    /\ kw.validate_only
    /\ count.valid_items >= 1
    /\ validated # {}

\* This step passes the row with number pos' to update_repo.
CommitStep == RowStep /\ committed' # committed

\* The status update_repo returned in this step, "" when it raised: the
\* status complete() wrote to the completed ledger.
Returned ==
    IF completedFile' = completedFile THEN ""
    ELSE completedFile'[Len(completedFile')].status

CreationFailed ==
    /\ pc \in {"running", "yielded", "raised", "done"}
    /\ pos >= 1
    /\ repoLog.path = "create"
    /\ repoLog.failed # ""

\* C13: when a step inside the transaction of a creation fails, none of the
\* item's resources is visible in the repository, the item is the last line
\* of this run's failed ledger, and it is not in the completed ledger.
C13_CreationAllOrNothing ==
    CreationFailed
        => LET row == metadata[pos]
               failed == failedFile[CurDir]
           IN  /\ Resources(row) \cap visible = {}
               /\ row.id \notin item_keys
               /\ Len(failed) >= 1
               /\ failed[Len(failed)].id = row.id

\* C14: the run has yielded one progress snapshot for each row it has taken
\* from the stream, and is not in the row loop past a row without having
\* yielded for it.
C14_SnapshotAfterEachRow ==
    pc \in {"running", "yielded", "done"} => snapshots = streamed

\* The case of C15: a full-import resume with the stored source has ended, and
\* the execution before it was dropped by its caller after a snapshot.
C15_Case ==
    /\ pc = "done"
    /\ entry = "resume"
    /\ prev.how = "abandoned"
    /\ ~kw.validate_only
    /\ kw.import_file = None

\* Every row the resume had to process was valid and was accepted.
C15_AllAccepted ==
    /\ \A j \in RowNumbers :
           /\ ~metadata[j].malformed
           /\ metadata[j].id \notin keysAtBegin => ~HasFailingEntry(metadata[j])
    /\ failedNow = {}

\* C15, as stated: a resume after the caller stopped consuming processes
\* exactly the rows whose identifier is not in the completed ledger, and ends
\* with import_complete when all of them are valid and accepted.
C15_ResumeAfterAbandon ==
    (C15_Case /\ C15_AllAccepted)
        => /\ validated = {j \in RowNumbers : metadata[j].id \notin keysAtBegin}
           /\ result = "import_complete"

\* C15, amended: while the caller holds no live generator no ledger is written
\* and the repository is not changed; in a run the completed ledger holds
\* the keys it began with and those of the rows committed so far; a resume
\* after the caller stopped consuming processes exactly the rows whose
\* identifier is not in the completed ledger when the stream reaches them, and
\* when all of them are valid and accepted it ends with import_complete if the
\* ledger then has as many entries as the source has rows, and with
\* import_incomplete if not.
C15_ResumeAfterAbandonAmended ==
    /\ [][ pc \notin {"created", "running", "yielded"}
             => UNCHANGED << completedFile, item_keys, invalidFile, failedFile,
                             visible >> ]_vars
    /\ [](pc \in {"running", "yielded", "done"}
            => item_keys = keysAtBegin
                             \cup {metadata[j].id : j \in committed \ failedNow})
    /\ [](C15_Case
            => /\ \A j \in RowNumbers :
                      ~metadata[j].malformed
                          => j \in validated
                               <=> /\ metadata[j].id \notin keysAtBegin
                                   /\ ~\E k \in committed \ failedNow :
                                          k < j /\ metadata[k].id = metadata[j].id
               /\ C15_AllAccepted
                      => result = IF Cardinality(item_keys) = Len(metadata)
                                  THEN "import_complete" ELSE "import_incomplete")

\* A resume after an abandoned run has processed the rest and ended with
\* import_complete.
C15_Witness ==
    /\ C15_Case
    /\ C15_AllAccepted
    /\ keysAtBegin # {}
    /\ validated # {}
    /\ result = "import_complete"


\* ------------------------------------------------------- the ledger file
\* The keys appended since the file was made, and whether they differ
\* pairwise.
AppendedKeys == {logAppended[i] : i \in 1..Len(logAppended)}
AppendedDistinct == Cardinality(AppendedKeys) = Len(logAppended)

\* C16: after N rows with distinct keys were appended, a new ItemLog
\* constructed over the same file has length N, contains every appended key
\* and no other key.
C16_ItemLogRoundTrip ==
    (logObj.reloaded /\ AppendedDistinct)
        => /\ logObj.raised = ""
           /\ ItemLog_len(logObj) = Len(logAppended)
           /\ \A k \in LogKeys : ItemLog_contains(logObj, k) <=> k \in AppendedKeys

\* What an ItemLog answers while its file does not exist: nothing is in it,
\* and what the caller has read of it is empty.
EmptyWhileAbsent ==
    logFile = None
        => /\ ItemLog_iter(logFile) = <<>>
           /\ ItemLog_len(logObj) = 0
           /\ \A k \in LogKeys : ~ItemLog_contains(logObj, k)
           /\ logSeen.op = "iter" => logSeen.result = <<>>
           /\ logSeen.op = "contains" => logSeen.result = FALSE
           /\ logSeen.op = "len" => logSeen.result = 0

C18_CompletedLedgerOnlyGrows ==
    [][ /\ Len(completedFile') >= Len(completedFile)
        /\ \A i \in 1..Len(completedFile) : completedFile'[i] = completedFile[i]
        /\ item_keys \subseteq item_keys'
        /\ load_keys(completedFile) \subseteq load_keys(completedFile') ]_vars

\* A resume found lines in the completed ledger and has written one more.
C18_Witness ==
    /\ entry = "resume"
    /\ pc \in {"yielded", "done"}
    /\ keysAtBegin # {}
    /\ Len(completedFile) > Cardinality(keysAtBegin)
    /\ keysAtBegin \subseteq item_keys


\* ------------------------------------------------------ the escaped job id
RECURSIVE unquote(_)
\* The job id an escaped id stands for: each percent sign and the two digits
\* after it are the character of that code.
unquote(string) ==
    IF string = <<>> THEN <<>>
    ELSE IF Head(string) = "%" /\ Len(string) >= 3
         THEN <<CHOOSE c \in DOMAIN PercentCode : PercentCode[c] = SubSeq(string, 2, 3)>>
                  \o unquote(SubSeq(string, 4, Len(string)))
         ELSE <<Head(string)>> \o unquote(Tail(string))

\* C19: the escaped job id keeps the unreserved characters and percent-encodes
\* every other one, the slash included, so that it has no slash, stands for
\* the job id alone, and is the escaped id of no other job id; "foo/bar"
\* becomes "foo%2Fbar" and "foo" stays "foo".
C19_SafeIdInjective ==
    safe_id # None
        => /\ Len(safe_id[1]) = Len(job_id)
                 + 2 * Cardinality({i \in 1..Len(job_id) : job_id[i] \notin AlwaysSafe})
           /\ \A i \in 1..Len(safe_id[1]) : safe_id[1][i] \in AlwaysSafe \cup {"%"}
           /\ unquote(safe_id[1]) = job_id
           /\ \A other \in JobIds : other # job_id => quote_job_id(other) # safe_id[1]
           /\ quote_job_id(<<"f", "o", "o", "/", "b", "a", "r">>)
                  = <<"f", "o", "o", "%", "2", "F", "b", "a", "r">>
           /\ quote_job_id(<<"f", "o", "o">>) = <<"f", "o", "o">>

\* A job was made for an id with a slash and a percent sign in it.
C19_Witness ==
    /\ job_id = <<"f", "/", "%">>
    /\ safe_id = Some(<<"f", "%", "2", "F", "%", "2", "5">>)


\* ----------------------------------------------------- resume without a job
\* The errors of resume itself.
ResumeErrors ==
    {NoSuchJobDirectory, "JobConfigError: is missing", "JobConfigError: is empty"}

\* A call of resume has left one of its errors.
ResumeFailed == raisedErr' \in ResumeErrors /\ raisedErr' # raisedErr

\* A call of resume has made a run.
ResumeMadeRun == Len(inst') > Len(inst) /\ entry' = "resume"

\* C20: resume fails before any run directory is made or any row is
\* processed when the job directory does not exist, and fails with a
\* JobConfigError saying "is missing" when config.yml is absent and "is empty"
\* when it is empty; a resume that fails makes no run and writes nothing.
C20_ResumeFailsWithoutJob ==
    /\ [][ ResumeFailed
             => /\ raisedErr' = IF ~jobExists THEN NoSuchJobDirectory
                                ELSE IF configFile = None THEN "JobConfigError: is missing"
                                ELSE "JobConfigError: is empty"
                /\ jobExists => configFile \in {None, Some(EmptyDocument)}
                /\ UNCHANGED << disk, config, item_keys, inst, cur, pc, entry, metadata,
                                pos, count, validated, committed, streamed, visible >> ]_vars
    /\ [][ ResumeMadeRun
             => /\ jobExists
                /\ configFile \notin {None, Some(EmptyDocument)}
                /\ raisedErr' \notin ResumeErrors ]_vars
    /\ [](raisedErr \in ResumeErrors /\ inst = <<>>
            => runDirs = {} /\ validated = {} /\ streamed = 0)

\* resume was called on a job directory with no config.yml: JobConfigError,
\* no run, no run directory, no row.
C20_Witness ==
    /\ jobExists
    /\ configFile = None
    /\ raisedErr = "JobConfigError: is missing"
    /\ inst = <<>>
    /\ runDirs = {}
    /\ streamed = 0

\* resume was called on a job directory with an empty config.yml.
C20_WitnessEmpty ==
    /\ jobExists
    /\ configFile = Some(EmptyDocument)
    /\ raisedErr = "JobConfigError: is empty"
    /\ inst = <<>>

\* resume was called with no job directory.
C20_WitnessNoDirectory ==
    /\ ~jobExists
    /\ raisedErr = NoSuchJobDirectory
    /\ inst = <<>>


\* ------------------------------------------------- the configuration file
\* C21, as stated: the configuration a resume reconstructs on a new ImportJob
\* object has in every field the value given to start, None where None was
\* given.
C21_ConfigRoundTrip ==
    reconstructed # None
        => \A k \in DOMAIN given : reconstructed[1][k] = given[k]

\* C21, amended: the configuration a resume reconstructs has in every field
\* the string form of the value given to start, None where None was given,
\* and None as well where the string form of the value is the word None.
C21_ConfigRoundTripAsStrings ==
    reconstructed # None
        => \A k \in DOMAIN given :
               reconstructed[1][k] =
                   IF given[k] = None \/ given[k][1].text = "None" THEN None
                   ELSE Some(Str(given[k][1].text))

\* A job started with a path and an access class given as a URIRef was
\* resumed on a new object.
C21_Witness ==
    /\ given = [binaries_location |-> Some(Str("/data")),
                access |-> Some(URIRef("umdaccess:Public"))]
    /\ stored # None
    /\ reconstructed = Some([binaries_location |-> Some(Str("/data")),
                             access |-> Some(Str("umdaccess:Public"))])


\* The job has been started: config.yml holds a saved configuration.
Started == configFile \notin {None, Some(EmptyDocument)}

\* C22: once a job has been started its stored configuration never changes,
\* whatever start and resume calls follow.
C22_StoredConfigFixed ==
    [][ Started => configFile' = configFile ]_vars


\* ---------------------------------------------------------- runs of a job
\* The entries of the job directory that are run directories: none when the
\* job directory is not there.
RunEntries ==
    IF args.dir = None THEN {} ELSE {e \in args.dir[1] : is_run_dir(e)}

\* C23: runs lists exactly the sub-directories named by 14 digits, the
\* greatest name first; latest_run loads the run of the greatest name, and
\* returns None without raising for a job with no runs, a job whose directory
\* was never made included.
C23_RunsNewestFirst ==
    returned # None
        => LET r == returned[1]
           IN  /\ r.raised = ""
               /\ args.method = "runs"
                    => /\ {r.value[i] : i \in 1..Len(r.value)} = {e.name : e \in RunEntries}
                       /\ Len(r.value) = Cardinality(RunEntries)
                       /\ \A i \in 1..(Len(r.value) - 1) : LessStr(r.value[i + 1], r.value[i])
               /\ args.method = "latest_run"
                    => IF RunEntries = {} THEN r.value = None
                       ELSE /\ r.value # None
                            /\ \A e \in RunEntries : ~LessStr(r.value[1].timestamp, e.name)


\* ------------------------------------------------ before the first row
\* C24: when the metadata references binaries and the job has no binaries
\* location, the run fails before any row is streamed: no row is validated or
\* committed, no ledger is appended to, and no run directory is added to the
\* job's runs.
C24_NoPartialRunWithoutBinariesLocation ==
    [][ (BeginStep /\ raisedErr' = BinariesLocationMessage)
          => /\ streamed' = 0 /\ validated' = {} /\ committed' = {}
             /\ UNCHANGED << completedFile, invalidFile, failedFile >>
             /\ runDirs' = runDirs ]_vars


\* C25: an import file given to a run is copied in full to source.csv before
\* the metadata is loaded and before any row is read, so that the rows the
\* run processes are those of source.csv.
C25_ImportFileStoredBeforeRows ==
    /\ [][ (BeginStep /\ kw'.import_file # None)
             => /\ sourceFile' = kw'.import_file
                /\ streamed' = 0
                /\ pc' = "running" => metadata' = kw'.import_file[1] ]_vars
    /\ [](pc \in {"running", "yielded", "done"} => sourceFile = Some(metadata))
    /\ [](validated \cup committed \subseteq 1..Len(metadata))

\* A second run was given another import file than the one stored, and has
\* processed a row of it.
C25_Witness ==
    /\ prev.how # ""
    /\ kw.import_file # None
    /\ sourceFile = kw.import_file
    /\ metadata = kw.import_file[1]
    /\ keysAtBegin # {}
    /\ \E j \in validated : metadata[j].id \notin keysAtBegin


\* ------------------------------------------------- the source of a binary
\* The scheme at the beginning of a base location: the longest of the
\* prefixes it begins with, "" when it begins with none.
Schemes ==
    { <<"z", "i", "p", "+", "s", "f", "t", "p", ":">>, <<"z", "i", "p", ":">>,
      <<"s", "f", "t", "p", ":">>, <<"h", "t", "t", "p", ":">>,
      <<"h", "t", "t", "p", "s", ":">> }
SchemeOf(base) ==
    IF \E p \in Schemes : startswith(base, p)
    THEN CHOOSE p \in Schemes :
             /\ startswith(base, p)
             /\ \A q \in Schemes : startswith(base, q) => Len(q) <= Len(p)
    ELSE <<>>

\* The string with one slash at its end, added when it has none.
WithSeparator(string) == IF endswith(string, <<"/">>) THEN string ELSE string \o <<"/">>

\* C26: get_source dispatches on the most specific scheme prefix of the base
\* location: zip+sftp: gives an archive handle over a remote session with the
\* job's key, zip: a local archive handle for the relative path, sftp: a
\* remote handle with the job's key, http: and https: an HTTP handle whose
\* URL is the base, one slash, the path, and anything else a local handle at
\* the base joined with the path.
C26_ResolverDispatch ==
    returned # None
        => LET h == returned[1]
               base == args.base_location
               scheme == SchemeOf(base)
               key == Some([key_filename |-> args.ssh_private_key])
           IN  /\ scheme = <<"z", "i", "p", "+", "s", "f", "t", "p", ":">>
                    => /\ h.class = "ZipFileSource"
                       /\ <<"z", "i", "p", "+">> \o h.location = base
                       /\ h.path = Some(args.path)
                       /\ h.ssh_options = key
               /\ scheme = <<"z", "i", "p", ":">>
                    => /\ h.class = "ZipFileSource"
                       /\ scheme \o h.location = base
                       /\ h.path = Some(args.path)
                       /\ h.ssh_options = None
               /\ scheme = <<"s", "f", "t", "p", ":">>
                    => /\ h.class = "RemoteFileSource"
                       /\ h.location = WithSeparator(base) \o args.path
                       /\ h.ssh_options = key
               /\ scheme \in {<<"h", "t", "t", "p", ":">>, <<"h", "t", "t", "p", "s", ":">>}
                    => /\ h.class = "HTTPFileSource"
                       /\ h.location = WithSeparator(base) \o args.path
                       /\ ~endswith(WithSeparator(base), <<"/", "/">>)
               /\ scheme = <<>>
                    => /\ h.class = "LocalFileSource"
                       /\ h.location = WithSeparator(base) \o args.path
               /\ (base = <<"z", "i", "p", ":", "/", "t", "m", "p", "/", "a", ".", "z", "i", "p">> /\ args.path = <<"x", "/", "y", ".", "t", "i", "f">>)
                    => /\ h.class = "ZipFileSource"
                       /\ h.location = <<"/", "t", "m", "p", "/", "a", ".", "z", "i", "p">>
                       /\ h.path = Some(<<"x", "/", "y", ".", "t", "i", "f">>)
               /\ (base = <<"/", "d", "a", "t", "a">> /\ args.path = <<"a", "/", "b", ".", "t", "x", "t">>)
                    => /\ h.class = "LocalFileSource"
                       /\ h.location = <<"/", "d", "a", "t", "a", "/", "a", "/", "b", ".", "t", "x", "t">>

\* get_source("zip:/tmp/a.zip", "x/y.tif") has returned an archive handle.
C26_Witness ==
    /\ args.base_location = <<"z", "i", "p", ":", "/", "t", "m", "p", "/", "a", ".", "z", "i", "p">>
    /\ args.path = <<"x", "/", "y", ".", "t", "i", "f">>
    /\ returned = Some([class |-> "ZipFileSource", location |-> <<"/", "t", "m", "p", "/", "a", ".", "z", "i", "p">>,
                        path |-> Some(<<"x", "/", "y", ".", "t", "i", "f">>), ssh_options |-> None])

\* get_source("zip+sftp:u@h/a.zip", path) has returned an archive handle
\* over a remote session with the key.
C26_WitnessRemoteArchive ==
    /\ returned # None
    /\ startswith(args.base_location, <<"z", "i", "p", "+">>)
    /\ args.ssh_private_key # None
    /\ returned[1].class = "ZipFileSource"
    /\ returned[1].ssh_options = Some([key_filename |-> args.ssh_private_key])


\* ------------------------------------------------------------ the counters
\* The run is in or past its row loop.
InRun == pc \in {"running", "yielded", "done"}

\* C27: each time a row's commit reports a job error the 'errors' counter is
\* incremented by one and the row is logged to the run's failed ledger, so
\* that the counter is the number of rows whose commit failed.
C27_ErrorsCounted ==
    InRun => count.errors = Cardinality(failedNow)

\* The counters that go with a status.
Matching(status) ==
    IF status = "created" THEN {"created_items"}
    ELSE IF status = "modified" THEN {"updated_items"}
    ELSE {"unchanged_items", "skipped_items"}

\* C28: on a successful commit the item is appended to the completed ledger
\* with the status returned, and exactly the matching counter goes up by one:
\* created_items for CREATED, updated_items for MODIFIED, unchanged_items and
\* skipped_items for UNCHANGED; skipped_items = unchanged_items in every
\* snapshot.
C28_StatusCounted ==
    /\ [][ (CommitStep /\ Returned # "")
             => LET row == metadata[pos']
                IN  /\ Returned \in Statuses
                    /\ completedFile'
                           = Append(completedFile, [id |-> row.id, status |-> Returned])
                    /\ row.id \in item_keys'
                    /\ \A k \in {"created_items", "updated_items", "unchanged_items",
                                 "skipped_items"} :
                           count'[k] = count[k] + IF k \in Matching(Returned) THEN 1 ELSE 0
                    /\ \A k \in {"invalid_items", "errors", "items_with_errors",
                                 "total_items", "initially_completed_items"} :
                           count'[k] = count[k]
                    /\ failedFile' = failedFile
                    /\ pc' = "yielded" ]_vars
    /\ [](count.skipped_items = count.unchanged_items)
    /\ [](InRun => count.created_items + count.updated_items + count.unchanged_items
                       = Len(completedFile) - Cardinality(keysAtBegin))

\* A snapshot after one item was updated and one was left unchanged.
C28_Witness ==
    /\ pc = "yielded"
    /\ count.updated_items = 1
    /\ count.unchanged_items = 1
    /\ count.skipped_items = 1
    /\ Len(completedFile) = 2
    /\ completedFile[2].status = "unchanged"

\* C29: in every snapshot and in the terminal summary the 'rows' counter is
\* the number of rows the run has taken from the metadata stream.
C29_RowsCounted ==
    (pc \in {"yielded", "done"}) => count.rows = streamed

\* C30: a row that arrives as an invalid-row marker is never validated or
\* committed; it is logged at once to the run's invalid ledger under its line
\* reference with the reason the source reported, no ImportRow is made of it,
\* and the loop goes on with the next row.
C30_InvalidRowMarkerLogged ==
    /\ [][ (RowStep /\ metadata[pos'].malformed)
             => LET before == invalidFile[CurDir]
                    after == invalidFile'[CurDir]
                IN  /\ after = Append(before,
                                      [id |-> LineReference(pos'),
                                       reason |-> << [name |-> "InvalidRow",
                                                      missing |-> <<>>] >>])
                    /\ \A t \in Times \ {CurDir} : invalidFile'[t] = invalidFile[t]
                    /\ validated' = validated
                    /\ committed' = committed
                    /\ count' = count
                    /\ repoLog' = NoRepoLog
                    /\ UNCHANGED << completedFile, item_keys, failedFile, visible >>
                    /\ pc' = "running" ]_vars
    /\ [](\A j \in validated \cup committed : ~metadata[j].malformed)

\* The run has logged an invalid-row marker and gone on to the next row.
C30_Witness ==
    /\ pos = 2
    /\ metadata[1].malformed
    /\ validated = {2}
    /\ Len(invalidFile[CurDir]) = 2
    /\ invalidFile[CurDir][1].id = LineReference(1)


\* ------------------------------------------------------- the access class
\* C31: when the job has an access class, committing a valid row with a
\* placeholder identity that the repository accepts creates the item, returns
\* CREATED, and appends the item to the completed ledger.
C31_AccessClassItemCreated ==
    [][ (CommitStep /\ config.access # None /\ metadata[pos'].uri = "urn:uuid:"
           /\ repoLog'.failed = "")
          => /\ Returned = "created"
             /\ metadata[pos'].id \in item_keys'
             /\ Resources(metadata[pos']) \subseteq visible'
             /\ pc' = "yielded" ]_vars


\* ------------------------------------------------ the percentage argument
\* C32: percentile(n) returns int(n) for 1 <= n <= 99 and raises the argument
\* error "Percent param must be 1-99" for every integer n <= 0 and every
\* integer n >= 100.
C32_PercentileAcceptsOneTo99 ==
    returned # None
        => IF 1 <= int(args.n) /\ int(args.n) <= 99
           THEN returned[1] = [raised |-> "", value |-> Some(int(args.n))]
           ELSE returned[1] = [raised |-> PercentMessage, value |-> None]


\* ------------------------------------------------------ the terminal type
\* C33: a validate-only run that ends with validate_success has dropped no
\* row as invalid: its invalid ledger is empty.
C33_ValidateSuccessNothingDropped ==
    (pc = "done" /\ kw.validate_only /\ result = "validate_success")
        => invalidFile[CurDir] = <<>>

\* C34: when a run ends with import_complete, every well-formed row of the
\* metadata it loaded has its identifier in the completed ledger.
C34_ImportCompleteAllRowsCompleted ==
    (pc = "done" /\ result = "import_complete")
        => \A j \in RowNumbers : ~metadata[j].malformed => metadata[j].id \in item_keys


\* -------------------------------------------------- one ledger for each row
\* The ledger file has a line whose id is the given identifier.
Recorded(file, id) == \E k \in 1..Len(file) : file[k].id = id

\* The ledgers, of the three a run writes, that record the identifier.
LedgersOf(id) ==
    {l \in {"completed", "invalid", "failed"} :
        Recorded(IF l = "completed" THEN completedFile
                 ELSE IF l = "invalid" THEN invalidFile[CurDir]
                 ELSE failedFile[CurDir], id)}

\* The well-formed rows streamed in the run have pairwise distinct identifiers.
DistinctIds ==
    \A i, j \in validated : i # j => metadata[i].id # metadata[j].id

\* C35: when a run that is not validate-only has returned its summary, every
\* well-formed row it streamed (identifiers pairwise distinct) is recorded in
\* exactly one of the completed ledger, the run's invalid ledger and the run's
\* failed ledger; valid_items is created + updated + unchanged + the length of
\* the failed ledger, and invalid_items is the number of those rows in the
\* invalid ledger.
C35_EachRowInOneLedger ==
    (pc = "done" /\ ~kw.validate_only /\ DistinctIds)
        => /\ \A j \in validated : Cardinality(LedgersOf(metadata[j].id)) = 1
           /\ count.valid_items = count.created_items + count.updated_items
                                  + count.unchanged_items + Len(failedFile[CurDir])
           /\ count.invalid_items =
                  Cardinality({j \in validated :
                                  Recorded(invalidFile[CurDir], metadata[j].id)})



\* ------------------------------------------------- ResourceList, on its own
\* A list of URIs processed by a method, with a log of the completed items.
MaxUris == 2

ListFieldnames == <<"uri", "title", "timestamp">>
ListKeyfield == "uri"
Uris == {"u1", "u2"}

\* What happens for one URI of the list: the repository does not contain it;
\* the method calls log_completed for it and returns; the method raises
\* RESTAPIException.
Outcomes == {"absent", "logged", "failed"}

\* The lists of URIs a ResourceList is given.
UriLists ==
    UNION {[1..n -> [uri : Uris, outcome : Outcomes]] : n \in 0..MaxUris}

\* csv.DictWriter.writerow for the row log_completed builds.
ListLine(uri) == <<uri, "a title", "a time">>

\* The files of the completed log a call may find: none, or the file an
\* earlier call without a transaction has written.
CompletedFiles == {None, Some(<<ListFieldnames, ListLine("u0")>>)}

\* ItemLog(filename, ['uri', 'title', 'timestamp'], 'uri', header): exists()
\* and load_keys(); row['uri'] of a row without that column raises KeyError.
ListLog(file, header) ==
    LET rows == ItemLog_iter(file)
        broken == \E i \in 1..Len(rows) : ListKeyfield \notin DOMAIN rows[i]
    IN  [write_header |-> header,
         raised |-> IF broken THEN "KeyError" ELSE "",
         item_keys |-> IF broken THEN {}
                       ELSE {rows[i][ListKeyfield] : i \in 1..Len(rows)}]

\* ItemLog.writer and ItemLog.append for such a log.
ListLog_writerow(file, obj, uri) ==
    LET lines == IF file # None THEN file[1]
                 ELSE IF obj.write_header THEN <<ListFieldnames>> ELSE <<>>
    IN  [file |-> Some(Append(lines, ListLine(uri))),
         obj |-> [obj EXCEPT !.item_keys = @ \cup {uri}]]

\* bool(self.completed): an object with __len__ is true when its length is
\* not zero.
bool(obj) == Cardinality(obj.item_keys) # 0

\* log_completed with every row written to the real log.
log_completed_unbuffered(real, realObj, buffer, transactional, uri) ==
    [real |-> ListLog_writerow(real, realObj, uri).file,
     realObj |-> ListLog_writerow(real, realObj, uri).obj,
     buffer |-> buffer]

\* ResourceList.log_completed: the row goes to the buffer in a transaction,
\* to the real log otherwise.
log_completed(real, realObj, buffer, transactional, uri) ==
    IF transactional
    THEN [real |-> real, realObj |-> realObj,
          buffer |-> ListLog_writerow(buffer.file, buffer.obj, uri)]
    ELSE [real |-> ListLog_writerow(real, realObj, uri).file,
          realObj |-> ListLog_writerow(real, realObj, uri).obj,
          buffer |-> buffer]

\* shutil.copyfile(src, dst): dst becomes a copy of src; a src that does not
\* exist raises FileNotFoundError and leaves dst.
copyfile(src, dst) ==
    IF src = None THEN [raised |-> "FileNotFoundError", dst |-> dst]
    ELSE [raised |-> "", dst |-> src]

\* ResourceList.__init__ with a completed_file, over a file and a list.
InitResourceList ==
    /\ CoreInit
    /\ LogInit /\ IdInit /\ ConfInit /\ CallInit
    /\ uri_list \in UriLists
    /\ completed_file \in CompletedFiles
    /\ completed_obj = ListLog(completed_file, TRUE)
    /\ completed_buffer = None
    /\ use_transaction = TRUE
    /\ txn = "none"
    /\ listPc = "constructed"
    /\ processed = 0
    /\ fileBefore = None
    /\ logged = <<>>
    /\ process_result = None

\* process() up to the loop: in a transaction the buffer is an ItemLog over
\* the name of a temporary file that is gone, and the transaction is opened.
Process(transactional) ==
    /\ listPc = "constructed"
    /\ use_transaction' = transactional
    /\ completed_buffer' = IF transactional
                           THEN [file |-> None, obj |-> ListLog(None, FALSE)]
                           ELSE completed_buffer
    /\ txn' = IF transactional THEN "open" ELSE txn
    /\ listPc' = "processing"
    /\ fileBefore' = completed_file
    /\ UNCHANGED << uri_list, completed_file, completed_obj, processed, logged,
                    process_result, logVars, idVars, confVars, callVars, core >>

\* One URI of the list: skipped when the repository does not contain it,
\* passed to the method otherwise.  rollback: whether txn_client.rollback()
\* works when the method has failed in a transaction.
Resource(rollback) ==
    LET r == uri_list[processed + 1]
        after == log_completed(completed_file, completed_obj, completed_buffer,
                               use_transaction, r.uri)
    IN
    /\ listPc = "processing"
    /\ processed < Len(uri_list)
    /\ rollback = IF r.outcome = "failed" /\ use_transaction THEN rollback ELSE TRUE
    /\ IF r.outcome = "logged"
       THEN /\ completed_file' = after.real
            /\ completed_obj' = after.realObj
            /\ completed_buffer' = after.buffer
            /\ logged' = Append(logged, r.uri)
            /\ processed' = processed + 1
            /\ UNCHANGED << txn, listPc, process_result >>
       ELSE IF r.outcome = "failed" /\ use_transaction
       THEN /\ txn' = IF rollback THEN "rolled back" ELSE txn
            /\ process_result' =
                   Some(IF rollback THEN [raised |-> "", value |-> Some(FALSE)]
                        ELSE [raised |-> "RESTAPIException", value |-> None])
            /\ listPc' = "returned"
            /\ UNCHANGED << completed_file, completed_obj, completed_buffer, logged,
                            processed >>
       ELSE \* not in the repository, or a failure outside a transaction
            /\ processed' = processed + 1
            /\ UNCHANGED << completed_file, completed_obj, completed_buffer, logged,
                            txn, listPc, process_result >>
    /\ UNCHANGED << uri_list, use_transaction, fileBefore, logVars, idVars, confVars,
                    callVars, core >>

\* The list is exhausted: in a transaction, commit, then the buffer is
\* copied over the completed log if self.completed is true; return True.
Commit ==
    LET copied == copyfile(completed_buffer.file, completed_file)
    IN
    /\ listPc = "processing"
    /\ processed = Len(uri_list)
    /\ listPc' = "returned"
    /\ IF use_transaction
       THEN /\ txn' = "committed"
            /\ IF bool(completed_obj)
               THEN /\ completed_file' = copied.dst
                    /\ process_result' =
                           Some(IF copied.raised = ""
                                THEN [raised |-> "", value |-> Some(TRUE)]
                                ELSE [raised |-> copied.raised, value |-> None])
               ELSE /\ process_result' = Some([raised |-> "", value |-> Some(TRUE)])
                    /\ UNCHANGED completed_file
       ELSE /\ process_result' = Some([raised |-> "", value |-> Some(TRUE)])
            /\ UNCHANGED << txn, completed_file >>
    /\ UNCHANGED << uri_list, completed_obj, completed_buffer, use_transaction,
                    processed, fileBefore, logged, logVars, idVars, confVars, callVars,
                    core >>

NextResourceList ==
    \/ \E transactional \in BOOLEAN : Process(transactional)
    \/ \E rollback \in BOOLEAN : Resource(rollback)
    \/ Commit

SpecResourceList == InitResourceList /\ [][NextResourceList]_vars


\* ------------------------------------------------ the buffered completed log
\* The loop of a transactional process is at a URI whose method fails.
ResourceFails ==
    /\ listPc = "processing"
    /\ use_transaction
    /\ processed < Len(uri_list)
    /\ uri_list[processed + 1].outcome = "failed"

\* While a transactional process runs, a logged entry goes to the buffer and
\* the file of the real log changes only in the step that commits.
BufferedUntilCommit ==
    /\ (use_transaction /\ logged' # logged)
           => /\ completed_buffer'.file # completed_buffer.file
              /\ completed_buffer'.file[1][Len(completed_buffer'.file[1])]
                     = ListLine(logged'[Len(logged')])
              /\ completed_file' = completed_file
    /\ (listPc = "processing" /\ use_transaction /\ completed_file' # completed_file)
           => txn = "open" /\ txn' = "committed"

\* The step at a failing resource stops the processing and leaves the real log.
StopsAtFailure ==
    /\ listPc' = "returned"
    /\ processed' = processed
    /\ logged' = logged
    /\ completed_file' = completed_file
    /\ completed_file' = fileBefore

\* C36 (as stated): in a transactional process completed entries are written
\* to the temporary buffer only and the real completed log changes only once
\* the transaction has committed; when a resource fails the transaction is
\* rolled back, processing stops at that resource, process returns False and
\* the real completed log is unchanged.
C36_FailureRollsBackAndReturnsFalse ==
    [][ /\ BufferedUntilCommit
        /\ ResourceFails
               => /\ StopsAtFailure
                  /\ txn' = "rolled back"
                  /\ process_result' = Some([raised |-> "", value |-> Some(FALSE)]) ]_vars

\* C36 (amended): as above, except that at a failing resource the rollback is
\* requested and may itself fail: process returns False when the transaction
\* was rolled back and raises the rollback's error when it was not; the real
\* completed log is unchanged either way.
C36_FailureStopsWithLogUnchanged ==
    [][ /\ BufferedUntilCommit
        /\ ResourceFails
               => /\ StopsAtFailure
                  /\ process_result' =
                         Some(IF txn' = "rolled back"
                              THEN [raised |-> "", value |-> Some(FALSE)]
                              ELSE [raised |-> "RESTAPIException", value |-> None]) ]_vars

\* A transactional process over a log with an earlier entry has logged an
\* entry, failed at the next resource, rolled back and returned False.
C36_Witness ==
    /\ listPc = "returned"
    /\ use_transaction
    /\ txn = "rolled back"
    /\ logged # <<>>
    /\ fileBefore # None
    /\ completed_file = fileBefore
    /\ process_result = Some([raised |-> "", value |-> Some(FALSE)])


\* The lines of a file of the completed log after its first line.
EntriesOf(file) ==
    IF file = None THEN {} ELSE {file[1][i] : i \in 2..Len(file[1])}

\* C37: after a transactional process has returned True, the file of the
\* completed log has every entry it had before the call and every entry
\* logged during the call, and a new ItemLog over it (uri, title, timestamp;
\* key uri) is constructed without error and contains all of their URIs.
C37_CompletedLogKeptAndExtended ==
    (listPc = "returned" /\ use_transaction
       /\ process_result = Some([raised |-> "", value |-> Some(TRUE)]))
        => LET lines == IF completed_file = None THEN <<>> ELSE completed_file[1]
               expected == EntriesOf(fileBefore)
                               \cup {ListLine(logged[i]) : i \in 1..Len(logged)}
               reloaded == ListLog(completed_file, TRUE)
           IN  /\ \A e \in expected : \E k \in 1..Len(lines) : lines[k] = e
               /\ reloaded.raised = ""
               /\ {e[1] : e \in expected} \subseteq reloaded.item_keys

====
